---------------------------- MODULE Spec2Model ----------------------------
(***************************************************************************)
(* Model of apps/sdk-proxy/app/body_padding.py: the patched transaction    *)
(* body encoder, the write-data body hash, the 64-byte padding guard, the  *)
(* parameterised (non-Ed25519) signing flow and the patched key-page       *)
(* operation encoder.  Spec is one signing call after another, SpecRepeat  *)
(* a caller that signs one body object twice, SpecEncode the encoders on   *)
(* their own, SpecThreads two signing calls whose steps interleave.        *)
(* SpecProxy is the session store, key generation and the guards of the    *)
(* signing routes (session_store.py, routes/), SpecWait the wait-for-tx    *)
(* handler (routes/query.py), SpecPatch the installation of the patch and  *)
(* the calls that go through it.                                           *)
(*                                                                         *)
(* Conventions.  A Python bytes value is a sequence of integers 0..255.    *)
(* A Python str is the sequence of its ASCII codes (so its UTF-8 encoding  *)
(* is the same sequence), except for hexadecimal text, which is a sequence *)
(* of one-character strings.  A Python dict is a function whose domain is  *)
(* the set of its keys.  SHA-256 is an ideal, collision-free digest: a     *)
(* digest is the term [sha256 |-> preimage].                               *)
(***************************************************************************)
EXTENDS Integers, Sequences, FiniteSets, TLC

VARIABLES
    body,       \* the caller's body dict (one object, passed by reference)
    pc,         \* position of the signing call
    args,       \* arguments of the running call, other than body
    frame,      \* local names assigned so far by the running call
    trace,      \* the steps the running call has executed, in order
    result,     \* what the last finished call returned
    prev,       \* what a caller that repeats a call kept of the call before
    thread,     \* two calls in flight: which one runs, and the suspended one
    sessions,   \* SessionStore._sessions: session_id -> keypair
    client,     \* main.client: "None" until the application has started
    response,   \* what the last store operation or route handler returned
    lastop,     \* the latest store or remove operation on each session
    poll,       \* the wait-for-tx handler in progress
    conv        \* the SDK module's four entry points and the saved originals

\* the state of the call that is running
callVars == <<body, pc, args, frame, trace, result, prev>>

\* the state outside the running call
appVars == <<thread, sessions, client, response, lastop, poll, conv>>

vars == <<body, pc, args, frame, trace, result, prev, thread, sessions, client,
          response, lastop, poll, conv>>

\* outside the running call nothing has happened yet
InitApp ==
    /\ thread = <<>>
    /\ sessions = <<>>
    /\ client = "None"
    /\ response = [op |-> "none"]
    /\ lastop = <<>>
    /\ poll = [pc |-> "idle"]
    /\ conv = <<>>

---------------------------------------------------------------------------
(* Bounds and program constants *)

\* Largest number of entries of a repeated field (operations, recipients).
MaxRepeated == 2

\* The encoded length the node rejects.
BanLen == 64

\* Python's None where an integer is expected (timestamp=None).
NoneInt == -1

\* Python's None where a str is expected (memo=None).
NoneStr == <<-1>>

\* A str that is not a decimal number (such as "abc") where a number is
\* expected: it is truthy and int() raises ValueError on it.
NotANumber == -2

---------------------------------------------------------------------------
(* Python helpers *)

\* d.get(k, default)
Get(d, k, default) == IF k \in DOMAIN d THEN d[k] ELSE default

\* d[k] = v on a dict
DictSet(d, k, v) == [x \in DOMAIN d \cup {k} |-> IF x = k THEN v ELSE d[x]]

\* b"".join(parts)
RECURSIVE Join(_)
Join(parts) ==
    IF Len(parts) = 0 THEN <<>> ELSE Head(parts) \o Join(Tail(parts))

HexDigits ==
    <<"0", "1", "2", "3", "4", "5", "6", "7",
      "8", "9", "a", "b", "c", "d", "e", "f">>

HexVal(c) == (CHOOSE i \in 1..16 : HexDigits[i] = c) - 1

\* bytes.fromhex(s)
FromHex(s) ==
    [i \in 1..(Len(s) \div 2) |-> 16 * HexVal(s[2 * i - 1]) + HexVal(s[2 * i])]

\* bytes.hex()
Hex(b) ==
    [i \in 1..(2 * Len(b)) |->
        IF i % 2 = 1 THEN HexDigits[(b[(i + 1) \div 2] \div 16) + 1]
                     ELSE HexDigits[(b[i \div 2] % 16) + 1]]

\* bytes.fromhex(s) raises ValueError
fromhex_raises(s) ==
    \/ Len(s) % 2 = 1
    \/ \E i \in 1..Len(s) : \A j \in 1..16 : HexDigits[j] # s[i]

\* int(v) raises ValueError
int_raises(v) == v = NotANumber

\* digest.hex() of an ideal digest or of an opaque signature
HexOf(d) == [hex |-> d]

---------------------------------------------------------------------------
(* SDK capabilities used by the module (accumulate_client.convenience) *)

\* unsigned LEB128
RECURSIVE Uvarint(_)
Uvarint(v) ==
    IF v < 128 THEN <<v>> ELSE <<(v % 128) + 128>> \o Uvarint(v \div 128)

field_uvarint(num, value) == Uvarint(num) \o Uvarint(value)

field_bytes(num, value) == Uvarint(num) \o Uvarint(Len(value)) \o value

field_string(num, value) == Uvarint(num) \o Uvarint(Len(value)) \o value

DataEntryTypeNum(name) == IF name = "accumulate" THEN 2 ELSE 3

\* _conv._encode_data_entry: 1 = entry type, 2 = data items (repeated)
encode_data_entry(entry) ==
    IF DOMAIN entry = {} THEN <<>>
    ELSE field_uvarint(1, DataEntryTypeNum(Get(entry, "type", "doubleHash")))
         \o Join([i \in 1..Len(Get(entry, "data", <<>>)) |->
                    field_bytes(2, entry["data"][i])])

\* _conv._data_entry_hash: the entry digest capability
data_entry_hash(entry) == [entry_hash |-> entry]

\* hashlib.sha256 of a byte string
sha256(data) == [sha256 |-> data]

\* hashlib.sha256 of the concatenation of two 32-byte values
sha256cat(a, b) == [sha256cat |-> <<a, b>>]

\* _conv._merkle_hash on two leaves
merkle_hash(leaves) == sha256cat(leaves[1], leaves[2])

\* _conv._encode_tx_header
encode_tx_header(principal, initiator, memo) ==
    [header_of |-> <<principal, initiator, memo>>]

\* the body kinds the delegate body encoder is given in this model
SdkBodyKinds == {"writeData", "createDataAccount"}

\* the delegate body encoder has no rule for the body's kind and fails
original_encode_tx_body_raises(b) == Get(b, "type", "") \notin SdkBodyKinds

\* the delegate body encoder, for the kinds this module leaves to it
original_encode_tx_body(b) ==
    IF Get(b, "type", "") = "writeData"
    THEN field_uvarint(1, 5)
         \o (LET entry_bytes == encode_data_entry(Get(b, "entry", <<>>))
             IN  IF Len(entry_bytes) > 0 THEN field_bytes(2, entry_bytes)
                                         ELSE <<>>)
    ELSE \* createDataAccount
         field_uvarint(1, 4)
         \o (IF Len(Get(b, "url", <<>>)) > 0 THEN field_string(2, b["url"])
                                             ELSE <<>>)

\* the delegate body hash for writeData
original_write_data_body_hash(b) ==
    merkle_hash(<<sha256(field_uvarint(1, 5)),
                  data_entry_hash(Get(b, "entry", <<>>))>>)

---------------------------------------------------------------------------
(* body_padding.py: encoders *)

\* a mapping with the two shorthands exchanged
ACCOUNT_AUTH_OP_TYPE_MAP_shorthands_swapped ==
    [enable |-> 1, disable |-> 2, addAuthority |-> 3, add |-> 4,
     removeAuthority |-> 4, remove |-> 3]

\* lines 38-45
ACCOUNT_AUTH_OP_TYPE_MAP ==
    [enable |-> 1, disable |-> 2, addAuthority |-> 3, add |-> 3,
     removeAuthority |-> 4, remove |-> 4]

encode_account_auth_operation(op) ==
    LET op_type   == Get(ACCOUNT_AUTH_OP_TYPE_MAP, Get(op, "type", ""), 0)
        authority == Get(op, "authority", <<>>)
    IN  (IF op_type # 0 THEN field_uvarint(1, op_type) ELSE <<>>)
        \o (IF Len(authority) > 0 THEN field_string(2, authority) ELSE <<>>)

\* lines 76-84
encode_write_data_to(b) ==
    field_uvarint(1, 6)
    \o (IF Len(Get(b, "recipient", <<>>)) > 0
        THEN field_string(2, b["recipient"]) ELSE <<>>)
    \o (LET entry_bytes == encode_data_entry(Get(b, "entry", <<>>))
        IN  IF Len(entry_bytes) > 0 THEN field_bytes(3, entry_bytes)
                                    ELSE <<>>)

\* lines 88-94
encode_update_account_auth(b) ==
    field_uvarint(1, 21)
    \o (LET ops == Get(b, "operations", <<>>)
        IN  Join([i \in 1..Len(ops) |->
                LET op_bytes == encode_account_auth_operation(ops[i])
                IN  IF Len(op_bytes) > 0 THEN field_bytes(2, op_bytes)
                                         ELSE <<>>]))

\* lines 98-103
encode_lock_account(b) ==
    field_uvarint(1, 16)
    \o (LET height == Get(b, "height", 0)
        IN  IF height # 0 THEN field_uvarint(2, height) ELSE <<>>)

\* a recipient encoder that writes the amount even when it is zero
encode_credit_recipient_always_amount(recipient) ==
    (IF Len(Get(recipient, "url", <<>>)) > 0
     THEN field_string(1, recipient["url"]) ELSE <<>>)
    \o field_uvarint(2, Get(recipient, "amount", 0))

\* lines 111-116: r_parts of one recipient
encode_credit_recipient(recipient) ==
    (IF Len(Get(recipient, "url", <<>>)) > 0
     THEN field_string(1, recipient["url"]) ELSE <<>>)
    \o (LET amt == Get(recipient, "amount", 0)
        IN  IF amt # 0 THEN field_uvarint(2, amt) ELSE <<>>)

\* lines 108-119
encode_transfer_credits(b) ==
    field_uvarint(1, 18)
    \o (LET to == Get(b, "to", <<>>)
        IN  Join([i \in 1..Len(to) |->
                LET r_parts == encode_credit_recipient(to[i])
                IN  IF Len(r_parts) > 0 THEN field_bytes(2, r_parts)
                                        ELSE <<>>]))

\* a burnCredits encoder that writes the amount even when it is zero
encode_burn_credits_always_amount(b) ==
    field_uvarint(1, 17) \o field_uvarint(2, Get(b, "amount", 0))

\* lines 123-128
encode_burn_credits(b) ==
    field_uvarint(1, 17)
    \o (LET amt == Get(b, "amount", 0)
        IN  IF amt # 0 THEN field_uvarint(2, amt) ELSE <<>>)

\* the encoded fields of a body, before the epilogue is appended
EncodeBodyFields(b) ==
    LET body_type == Get(b, "type", "")
    IN
    CASE body_type = "writeDataTo" -> encode_write_data_to(b)
      [] body_type = "updateAccountAuth" -> encode_update_account_auth(b)
      [] body_type = "lockAccount" -> encode_lock_account(b)
      [] body_type = "transferCredits" -> encode_transfer_credits(b)
      [] body_type = "burnCredits" -> encode_burn_credits(b)
      [] OTHER -> original_encode_tx_body(b)

\* _patched_encode_tx_body raises instead of returning: a conversion at line
\* 102, 116, 127 or 135 raises, or the delegate at line 131 does
encode_tx_body_raises(b) ==
    LET body_type == Get(b, "type", "")
        epilogue  == Get(b, "$epilogue", <<>>)
    IN  \/ /\ body_type = "lockAccount"
           /\ Get(b, "height", 0) # 0
           /\ int_raises(b["height"])
        \/ /\ body_type = "transferCredits"
           /\ \E i \in 1..Len(Get(b, "to", <<>>)) :
                 /\ Get(b["to"][i], "amount", 0) # 0
                 /\ int_raises(b["to"][i]["amount"])
        \/ /\ body_type = "burnCredits"
           /\ Get(b, "amount", 0) # 0
           /\ int_raises(b["amount"])
        \/ /\ body_type \notin {"writeDataTo", "updateAccountAuth", "lockAccount",
                                "transferCredits", "burnCredits"}
           /\ original_encode_tx_body_raises(b)
        \/ /\ Len(epilogue) > 0
           /\ fromhex_raises(epilogue)

\* the kinds _patched_encode_tx_body encodes itself, lines 73-129
PatchedBodyKinds ==
    {"writeDataTo", "updateAccountAuth", "lockAccount", "transferCredits",
     "burnCredits"}

\* lines 130-131: the else branch hands the body to the delegate encoder
delegate_called(b) == Get(b, "type", "") \notin PatchedBodyKinds

\* a body encoder that returns the delegate's bytes as they are
patched_encode_tx_body_delegate_unpadded(b) ==
    LET epilogue == Get(b, "$epilogue", <<>>)
    IN  IF Len(epilogue) > 0 /\ ~delegate_called(b)
        THEN EncodeBodyFields(b) \o FromHex(epilogue)
        ELSE EncodeBodyFields(b)

patched_encode_tx_body(b) ==
    LET epilogue == Get(b, "$epilogue", <<>>)
    IN  IF Len(epilogue) > 0 THEN EncodeBodyFields(b) \o FromHex(epilogue)
                             ELSE EncodeBodyFields(b)

\* a write-data body hash that leaves the entry out
patched_write_data_body_hash_without_entry(b) ==
    sha256(field_uvarint(1, 6)
           \o (IF Len(Get(b, "recipient", <<>>)) > 0
               THEN field_string(2, b["recipient"]) ELSE <<>>))

patched_write_data_body_hash(b) ==
    IF Get(b, "type", "") # "writeDataTo"
    THEN original_write_data_body_hash(b)
    ELSE LET body_without_entry ==
                field_uvarint(1, 6)
                \o (IF Len(Get(b, "recipient", <<>>)) > 0
                    THEN field_string(2, b["recipient"]) ELSE <<>>)
             entry_hash == data_entry_hash(Get(b, "entry", <<>>))
             h1         == sha256(body_without_entry)
         IN  merkle_hash(<<h1, entry_hash>>)

\* what a call of _patched_encode_tx_body gives its caller
encode_tx_body_outcome(b) ==
    IF encode_tx_body_raises(b) THEN [raised |-> "encode_tx_body"]
                                ELSE [returned |-> patched_encode_tx_body(b)]

TX_TYPE_NAME_MAP ==
    [createIdentity |-> 1, createTokenAccount |-> 2, sendTokens |-> 3,
     createDataAccount |-> 4, writeData |-> 5, writeDataTo |-> 6,
     acmeFaucet |-> 7, createToken |-> 8, issueTokens |-> 9,
     burnTokens |-> 10, createLiteTokenAccount |-> 11,
     createKeyPage |-> 12, createKeyBook |-> 13, addCredits |-> 14,
     updateKeyPage |-> 15, lockAccount |-> 16, burnCredits |-> 17,
     transferCredits |-> 18, updateAccountAuth |-> 21, updateKey |-> 22]

\* the delegate key-page operation encoder: whatever it returns for op
original_encode_key_page_operation(op) ==
    [original_encode_key_page_operation |-> op]

\* lines 322 and 327: an element of an allow or deny list is an int, written
\* [int |-> n], or a transaction-type name, written [name |-> s]
tx_type_value(tx_name) ==
    IF "int" \in DOMAIN tx_name THEN tx_name.int
    ELSE Get(TX_TYPE_NAME_MAP, tx_name.name, 0)

\* lines 321-324 and 326-329: one field per element of a list
tx_type_fields(num, names) ==
    Join([i \in 1..Len(names) |->
            LET val == tx_type_value(names[i])
            IN  IF val # 0 THEN field_uvarint(num, val) ELSE <<>>])

\* an updateAllowed encoder that writes the deny list before the allow list
patched_encode_key_page_operation_deny_first(op) ==
    LET op_type == Get(op, "type", "")
    IN
    CASE op_type = "updateAllowed" ->
            field_uvarint(1, 5)
            \o tx_type_fields(3, Get(op, "deny", <<>>))
            \o tx_type_fields(2, Get(op, "allow", <<>>))
      [] op_type = "setRejectThreshold" ->
            field_uvarint(1, 6) \o field_uvarint(2, Get(op, "threshold", 1))
      [] op_type = "setResponseThreshold" ->
            field_uvarint(1, 7) \o field_uvarint(2, Get(op, "threshold", 1))
      [] OTHER -> original_encode_key_page_operation(op)

\* _patched_encode_key_page_operation; an absent list and None are both
\* written as an absent key
patched_encode_key_page_operation(op) ==
    LET op_type == Get(op, "type", "")
    IN
    CASE op_type = "updateAllowed" ->
            field_uvarint(1, 5)
            \o tx_type_fields(2, Get(op, "allow", <<>>))
            \o tx_type_fields(3, Get(op, "deny", <<>>))
      [] op_type = "setRejectThreshold" ->
            field_uvarint(1, 6) \o field_uvarint(2, Get(op, "threshold", 1))
      [] op_type = "setResponseThreshold" ->
            field_uvarint(1, 7) \o field_uvarint(2, Get(op, "threshold", 1))
      [] OTHER -> original_encode_key_page_operation(op)

---------------------------------------------------------------------------
(* Inputs *)

\* the str "a" * n
Str(n) == [i \in 1..n |-> 97]

\* every sequence over S of length at most n
SeqsUpTo(S, n) == UNION {[1..k -> S] : k \in 0..n}

\* A data entry with one item of m bytes.
Entry(m) == [type |-> "doubleHash", data |-> <<[i \in 1..m |-> 1]>>]

AuthOperations ==
    {[type |-> "add", authority |-> Str(56)],
     [type |-> "disable", authority |-> Str(56)],
     [type |-> "enable", authority |-> Str(3)]}

CreditRecipients ==
    {[url |-> Str(56), amount |-> 5],
     [url |-> Str(56), amount |-> 0],
     [url |-> Str(3), amount |-> 300]}

\* Bodies without an epilogue.  The lengths are chosen so that the kinds this
\* module encodes itself have encodings of 63 and of 64 bytes, and shorter
\* ones; the kinds left to the delegate encoder stay short.
PlainBodies ==
    {[type |-> "writeDataTo", recipient |-> Str(n), entry |-> Entry(m)] :
        n \in {0, 52, 53}, m \in {1, 2}}
    \cup {[type |-> "updateAccountAuth", operations |-> ops] :
        ops \in SeqsUpTo(AuthOperations, MaxRepeated)}
    \cup {[type |-> "lockAccount", height |-> h] : h \in {0, 1, 300}}
    \cup {[type |-> "transferCredits", to |-> to] :
        to \in SeqsUpTo(CreditRecipients, MaxRepeated)}
    \cup {[type |-> "burnCredits", amount |-> a] : a \in {0, 17, 300}}
    \cup {[type |-> "writeData", entry |-> Entry(m)] : m \in {1, 2}}
    \cup {[type |-> "createDataAccount", url |-> Str(n)] : n \in {3, 4}}

\* "$epilogue" values a caller may supply: "", "00", "ff"
Epilogues == {<<>>, <<"0", "0">>, <<"f", "f">>}

Bodies ==
    PlainBodies \cup {DictSet(b, "$epilogue", e) : b \in PlainBodies, e \in Epilogues}

\* "acc://a", "acc://b" and "acc://x/book"
AccA == <<97, 99, 99, 58, 47, 47, 97>>
AccB == <<97, 99, 99, 58, 47, 47, 98>>
AccXBook == <<97, 99, 99, 58, 47, 47, 120, 47, 98, 111, 111, 107>>

\* bodies of the documented scenarios, and one operation of every mapped type
ExampleBodies ==
    {[type |-> "transferCredits",
      to |-> <<[url |-> AccA, amount |-> 5], [url |-> AccB, amount |-> 0]>>]}
    \cup {[type |-> "updateAccountAuth",
           operations |-> <<[type |-> t, authority |-> AccXBook]>>] :
            t \in DOMAIN ACCOUNT_AUTH_OP_TYPE_MAP}

\* bodies with absent keys and with elements that have nothing to encode
SparseBodies ==
    {[type |-> t] : t \in {"writeDataTo", "updateAccountAuth", "lockAccount",
                           "transferCredits", "burnCredits"}}
    \cup {[type |-> "transferCredits", to |-> <<r, [url |-> AccA, amount |-> 5]>>] :
            r \in {[url |-> AccB], [amount |-> 5], [url |-> <<>>, amount |-> 0]}}
    \cup {[type |-> "updateAccountAuth",
           operations |-> <<op, [type |-> "add", authority |-> AccXBook]>>] :
            op \in {[type |-> "enable"], [authority |-> AccA],
                    [type |-> "disable", authority |-> <<>>]}}

\* bodies with a value outside its field's domain
MalformedBodies ==
    {[type |-> "updateAccountAuth", operations |-> <<op>>] :
        op \in {[type |-> "bogus", authority |-> AccXBook], [type |-> "bogus"]}}
    \cup {[type |-> "burnCredits", amount |-> NotANumber],
          [type |-> "lockAccount", height |-> NotANumber],
          [type |-> "transferCredits",
           to |-> <<[url |-> AccA, amount |-> NotANumber]>>]}
    \cup {DictSet([type |-> "burnCredits", amount |-> 17], "$epilogue", e) :
            e \in {<<"z", "z">>, <<"0">>}}

\* bodies of a kind no encoder has a rule for
UnsupportedBodies == {[type |-> "bogusKind"]}

\* what _conv._encode_tx_body is called with
EncoderBodies ==
    Bodies \cup ExampleBodies \cup SparseBodies \cup MalformedBodies
           \cup UnsupportedBodies

\* elements of an allow or deny list: names of the table, a name that is not
\* in it, and ints
TxTypeRefs ==
    {[name |-> "writeData"], [name |-> "updateKeyPage"], [name |-> "bogusTx"],
     [int |-> 3], [int |-> 0]}

Thresholds == {0, 1, 2, 300}

\* what _conv._encode_key_page_operation is called with
KeyPageOperations ==
    {[type |-> "updateAllowed", allow |-> allow, deny |-> deny] :
        allow \in SeqsUpTo(TxTypeRefs, MaxRepeated),
        deny \in SeqsUpTo(TxTypeRefs, MaxRepeated)}
    \cup {[type |-> "updateAllowed"]}
    \cup {[type |-> "updateAllowed", deny |-> <<[name |-> "writeData"]>>]}
    \cup {[type |-> t, threshold |-> n] :
            t \in {"setRejectThreshold", "setResponseThreshold", "setThreshold"},
            n \in Thresholds}
    \cup {[type |-> t] :
            t \in {"setRejectThreshold", "setResponseThreshold", "bogusOp"}}
    \cup {[type |-> t, entry |-> [keyHash |-> <<9, 9>>]] :
            t \in {"update", "remove", "add"}}
    \cup {[threshold |-> 2]}

\* public_key_bytes() of a key handle: n bytes
Pub(n, v) == [i \in 1..n |-> v]

\* An SDK Ed25519KeyPair used directly: it has no _acc_sig_type attribute.
SdkKeypair == [id |-> "sdk", public_key |-> Pub(32, 1)]

\* session_store.AlgoKeypair
AlgoKeypair(id, sig_type_num, sig_type_str, pub) ==
    [x \in {"id", "public_key", "_acc_sig_type", "_acc_sig_str"} |->
        CASE x = "id" -> id
          [] x = "public_key" -> pub
          [] x = "_acc_sig_type" -> sig_type_num
          [] x = "_acc_sig_str" -> sig_type_str]

Keypairs ==
    {SdkKeypair,
     AlgoKeypair("ed25519", 2, "ed25519", Pub(32, 2)),
     AlgoKeypair("rcd1", 3, "rcd1", Pub(32, 3)),
     AlgoKeypair("btc", 8, "btc", Pub(33, 4)),
     AlgoKeypair("eth", 10, "eth", Pub(33, 5))}

Principals == {Str(4)}
SignerUrls == {Str(5)}
SignerVersions == {0, 1}
Memos == {NoneStr, <<>>, <<109>>}
Timestamps == {NoneInt, 0, 7}

\* values int(time.time() * 1_000_000) may return
ClockValues == {200, 300}

\* Bodies of a caller that signs twice: a writeDataTo body of 64 bytes, short
\* data writes, 63 bytes of fields with a one-byte epilogue, a transferCredits
\* body of 64 bytes and a burnCredits body.
RepeatBodies ==
    {[type |-> "writeDataTo", recipient |-> Str(n), entry |-> Entry(1)] :
        n \in {0, 53}}
    \cup {DictSet([type |-> "writeDataTo", recipient |-> Str(52),
                   entry |-> Entry(1)], "$epilogue", <<"f", "f">>)}
    \cup {[type |-> "writeData", entry |-> Entry(1)]}
    \cup {[type |-> "transferCredits",
           to |-> <<[url |-> Str(56), amount |-> 5]>>]}
    \cup {[type |-> "burnCredits", amount |-> 17]}

\* entry payloads the caller may put into the body before signing again
RepeatEntries ==
    {Entry(1), Entry(2), [type |-> "doubleHash", data |-> <<<<2>>>>]}

\* principals of the second call
RepeatPrincipals == {Str(4), Str(6)}

---------------------------------------------------------------------------
(* body_padding.py: the signing call *)

\* the body dict held by a returned envelope is the caller's object
BodyRef == [ref |-> "body"]

\* a guard that measures the encoded fields only, ignoring a present epilogue
pad_64_byte_body_fields_only(b) ==
    IF Len(EncodeBodyFields(b)) = BanLen
    THEN DictSet(b, "$epilogue", <<"0", "0">>)
    ELSE b

\* a guard that lengthens the epilogue of every body of 64 bytes or more
pad_64_byte_body_appending(b) ==
    IF Len(patched_encode_tx_body(b)) >= BanLen
    THEN DictSet(b, "$epilogue", Get(b, "$epilogue", <<>>) \o <<"0", "0">>)
    ELSE b

\* lines 275-277: the body after the guard
pad_64_byte_body(b) ==
    IF Len(patched_encode_tx_body(b)) = BanLen
    THEN DictSet(b, "$epilogue", <<"0", "0">>)
    ELSE b

\* a dispatch that treats every Ed25519-based key (rcd1 too) as native
is_ed25519_by_curve(keypair) == Get(keypair, "_acc_sig_type", 2) \in {2, 3}

\* line 280
is_ed25519(keypair) ==
    ("_acc_sig_type" \notin DOMAIN keypair) \/ keypair["_acc_sig_type"] = 2

\* a call that dispatches without running the guard
FirstStep_skips_guard == "dispatch"

\* where a call starts
FirstStep == "guard"

\* a metadata encoder that emits the signer version even when it is zero
sig_metadata_binary_always_version(keypair, pub_key, signer_url, signer_version, timestamp) ==
    field_uvarint(1, keypair["_acc_sig_type"])
    \o field_bytes(2, pub_key)
    \o field_string(4, signer_url)
    \o field_uvarint(5, signer_version)
    \o (IF timestamp # 0 THEN field_uvarint(6, timestamp) ELSE <<>>)

\* lines 192-204
sig_metadata_binary(keypair, pub_key, signer_url, signer_version, timestamp) ==
    field_uvarint(1, keypair["_acc_sig_type"])
    \o field_bytes(2, pub_key)
    \o field_string(4, signer_url)
    \o (IF signer_version # 0 THEN field_uvarint(5, signer_version) ELSE <<>>)
    \o (IF timestamp # 0 THEN field_uvarint(6, timestamp) ELSE <<>>)

\* a default that reads the clock even when the caller gave a timestamp
default_timestamp_always_clock(timestamp, now) == now

\* lines 188-189
default_timestamp(timestamp, now) ==
    IF timestamp = NoneInt THEN now ELSE timestamp

\* a step 4 that reuses the guard's trial encoding
step4_body_binary_reuses_trial(b, fr) == fr["encoded"]

\* line 217
step4_body_binary(b, fr) == patched_encode_tx_body(b)

\* a step 5 without the data-write case
step5_body_hash_plain(b, body_binary) == sha256(body_binary)

\* lines 221-225
step5_body_hash(b, body_binary) ==
    IF Get(b, "type", "") \in {"writeData", "writeDataTo"}
    THEN patched_write_data_body_hash(b)
    ELSE sha256(body_binary)

\* line 226
step5_tx_hash(header_hash, body_hash) == sha256cat(header_hash, body_hash)

\* a preimage with its two halves swapped
step6_signing_preimage_swapped(initiator, tx_hash) == sha256cat(tx_hash, initiator)

\* line 229
step6_signing_preimage(initiator, tx_hash) == sha256cat(initiator, tx_hash)

\* keypair.sign(message): the signing capability; nonce is its randomness
Sign(keypair, message, nonce) ==
    [signed_by |-> keypair["id"], message |-> message, nonce |-> nonce]

SignNonces(keypair) ==
    IF Get(keypair, "_acc_sig_type", 2) \in {8, 10} THEN {0, 1} ELSE {0}

\* a signing step that is tried again when it raised
OnSignFailure_retry == "step7"

\* line 232 has no try/except around it: where the call is after sign raised
OnSignFailure == "raised"

\* if memo:
MemoGiven(memo) == memo # NoneStr /\ Len(memo) > 0

\* an envelope that reports the timestamp argument, not the defaulted local
envelope_timestamp_from_arg(a, fr) == a.timestamp

\* line 253
envelope_timestamp(a, fr) == fr["timestamp"]

\* lines 235-255
step8_envelope(a, fr) ==
    [transaction |->
        <<[header |->
              IF MemoGiven(a.memo)
              THEN [principal |-> a.principal,
                    initiator |-> HexOf(fr["initiator"]),
                    memo |-> a.memo]
              ELSE [principal |-> a.principal,
                    initiator |-> HexOf(fr["initiator"])],
           body |-> BodyRef]>>,
     signatures |->
        <<[type |-> a.keypair["_acc_sig_str"],
           publicKey |-> Hex(fr["pub_key"]),
           signature |-> HexOf(fr["signature"]),
           signer |-> a.signer_url,
           signerVersion |-> a.signer_version,
           timestamp |-> envelope_timestamp(a, fr)]>>]

\* _original_compute: the SDK's own signing flow, opaque to this module
original_compute(a, b) ==
    [original_compute |-> a, body |-> BodyRef, encoded_body |-> patched_encode_tx_body(b)]

Local(name, value) == DictSet(frame, name, value)

Init ==
    /\ body \in Bodies \cup UnsupportedBodies
    /\ pc = "idle"
    /\ args = <<>>
    /\ frame = <<>>
    /\ trace = <<>>
    /\ result = <<>>
    /\ prev = <<>>
    /\ InitApp

\* a caller invokes _conv._compute_tx_hash_and_sign on its body
Call ==
    /\ pc \in {"idle", "done", "raised"}
    /\ \E keypair \in Keypairs, principal \in Principals,
          signer_url \in SignerUrls, signer_version \in SignerVersions,
          memo \in Memos, timestamp \in Timestamps :
            args' = [keypair |-> keypair, principal |-> principal,
                     signer_url |-> signer_url,
                     signer_version |-> signer_version,
                     memo |-> memo, timestamp |-> timestamp]
    /\ frame' = <<>>
    /\ trace' = <<>>
    /\ result' = <<>>
    /\ pc' = FirstStep
    /\ prev' = <<>>
    /\ UNCHANGED body
    /\ UNCHANGED appVars

\* what the second call may be given: the arguments of the first, changed in
\* at most one of memo, principal and timestamp
RepeatArgs(a) ==
    {a} \cup {[a EXCEPT !.memo = m] : m \in Memos}
        \cup {[a EXCEPT !.principal = p] : p \in RepeatPrincipals}
        \cup {[a EXCEPT !.timestamp = t] : t \in Timestamps}

\* the body of the second call: the same object, as the first call left it,
\* or with another entry when it is a data write
RepeatBody(b) ==
    {b} \cup (IF Get(b, "type", "") \in {"writeData", "writeDataTo"}
              THEN {DictSet(b, "entry", e) : e \in RepeatEntries}
              ELSE {})

\* a caller that got an envelope from the parameterised flow signs a second
\* time and keeps what the first call computed
CallAgain ==
    /\ pc = "done"
    /\ "tx_hash" \in DOMAIN frame
    /\ prev = <<>>
    /\ \E a \in RepeatArgs(args), b \in RepeatBody(body) :
          /\ args' = a
          /\ body' = b
          /\ prev' = [args |-> args,
                      body |-> body,
                      next_body |-> b,
                      padded |-> (\E i \in 1..Len(trace) : trace[i] = "set_epilogue"),
                      initiator |-> frame["initiator"],
                      header_binary |-> frame["header_binary"],
                      header_hash |-> frame["header_hash"],
                      body_binary |-> frame["body_binary"],
                      body_hash |-> frame["body_hash"],
                      tx_hash |-> frame["tx_hash"]]
    /\ frame' = <<>>
    /\ trace' = <<>>
    /\ result' = <<>>
    /\ pc' = FirstStep
    /\ UNCHANGED appVars

\* _patched_compute, lines 275-277
Guard ==
    /\ pc = "guard"
    /\ ~encode_tx_body_raises(body)
    /\ frame' = Local("encoded", patched_encode_tx_body(body))
    /\ body' = pad_64_byte_body(body)
    /\ trace' = trace \o <<"encode_tx_body", "length_check">>
                      \o (IF Len(patched_encode_tx_body(body)) = BanLen
                          THEN <<"set_epilogue">> ELSE <<>>)
    /\ pc' = "dispatch"
    /\ UNCHANGED <<args, result, prev>>
    /\ UNCHANGED appVars

\* _patched_compute, line 275: the trial encoding raises and the exception
\* leaves the call
GuardRaises ==
    /\ pc = "guard"
    /\ encode_tx_body_raises(body)
    /\ trace' = Append(trace, "encode_tx_body")
    /\ result' = [raised |-> "encode_tx_body"]
    /\ pc' = "raised"
    /\ UNCHANGED <<body, args, frame, prev>>
    /\ UNCHANGED appVars

\* _patched_compute, lines 280-288
Dispatch ==
    /\ pc = "dispatch"
    /\ frame' = Local("is_ed25519", is_ed25519(args.keypair))
    /\ trace' = Append(trace, "dispatch")
    /\ pc' = IF is_ed25519(args.keypair) THEN "original" ELSE "prepare"
    /\ UNCHANGED <<body, args, result, prev>>
    /\ UNCHANGED appVars

\* _patched_compute, lines 282-284
OriginalCompute ==
    /\ pc = "original"
    /\ result' = original_compute(args, body)
    /\ trace' = Append(trace, "original_compute")
    /\ pc' = "done"
    /\ UNCHANGED <<body, args, frame, prev>>
    /\ UNCHANGED appVars

\* _compute_non_ed25519, lines 186-189
Prepare ==
    /\ pc = "prepare"
    /\ \E now \in ClockValues :
          frame' = DictSet(Local("pub_key", args.keypair["public_key"]),
                           "timestamp", default_timestamp(args.timestamp, now))
    /\ trace' = Append(trace, "public_key_bytes")
    /\ pc' = "step1"
    /\ UNCHANGED <<body, args, result, prev>>
    /\ UNCHANGED appVars

\* _compute_non_ed25519, lines 192-204
Step1Metadata ==
    /\ pc = "step1"
    /\ frame' = Local("sig_metadata_binary",
                      sig_metadata_binary(args.keypair, frame["pub_key"],
                                          args.signer_url, args.signer_version,
                                          frame["timestamp"]))
    /\ trace' = Append(trace, "encode_metadata")
    /\ pc' = "step2"
    /\ UNCHANGED <<body, args, result, prev>>
    /\ UNCHANGED appVars

\* line 207
Step2Initiator ==
    /\ pc = "step2"
    /\ frame' = Local("initiator", sha256(frame["sig_metadata_binary"]))
    /\ trace' = Append(trace, "sha256_initiator")
    /\ pc' = "step3"
    /\ UNCHANGED <<body, args, result, prev>>
    /\ UNCHANGED appVars

\* lines 210-214
Step3Header ==
    /\ pc = "step3"
    /\ frame' = Local("header_binary",
                      encode_tx_header(args.principal, frame["initiator"],
                                       args.memo))
    /\ trace' = Append(trace, "encode_tx_header")
    /\ pc' = "step4"
    /\ UNCHANGED <<body, args, result, prev>>
    /\ UNCHANGED appVars

\* line 217
Step4Body ==
    /\ pc = "step4"
    /\ frame' = Local("body_binary", step4_body_binary(body, frame))
    /\ trace' = Append(trace, "encode_tx_body")
    /\ pc' = "step5_header_hash"
    /\ UNCHANGED <<body, args, result, prev>>
    /\ UNCHANGED appVars

\* line 220
Step5HeaderHash ==
    /\ pc = "step5_header_hash"
    /\ frame' = Local("header_hash", sha256(frame["header_binary"]))
    /\ trace' = Append(trace, "sha256_header")
    /\ pc' = "step5_body_hash"
    /\ UNCHANGED <<body, args, result, prev>>
    /\ UNCHANGED appVars

\* lines 221-225
Step5BodyHash ==
    /\ pc = "step5_body_hash"
    /\ frame' = Local("body_hash", step5_body_hash(body, frame["body_binary"]))
    /\ trace' = Append(trace, "body_hash")
    /\ pc' = "step5_tx_hash"
    /\ UNCHANGED <<body, args, result, prev>>
    /\ UNCHANGED appVars

\* line 226
Step5TxHash ==
    /\ pc = "step5_tx_hash"
    /\ frame' = Local("tx_hash",
                      step5_tx_hash(frame["header_hash"], frame["body_hash"]))
    /\ trace' = Append(trace, "sha256_tx_hash")
    /\ pc' = "step6"
    /\ UNCHANGED <<body, args, result, prev>>
    /\ UNCHANGED appVars

\* line 229
Step6Preimage ==
    /\ pc = "step6"
    /\ frame' = Local("signing_preimage",
                      step6_signing_preimage(frame["initiator"], frame["tx_hash"]))
    /\ trace' = Append(trace, "sha256_preimage")
    /\ pc' = "step7"
    /\ UNCHANGED <<body, args, result, prev>>
    /\ UNCHANGED appVars

\* line 232
Step7Sign ==
    /\ pc = "step7"
    /\ \E nonce \in SignNonces(args.keypair) :
          frame' = DictSet(Local("sign_message", frame["signing_preimage"]),
                           "signature",
                           Sign(args.keypair, frame["signing_preimage"], nonce))
    /\ trace' = Append(trace, "sign")
    /\ pc' = "step8"
    /\ UNCHANGED <<body, args, result, prev>>
    /\ UNCHANGED appVars

\* line 232: keypair.sign raises and the exception leaves the call
Step7SignRaises ==
    /\ pc = "step7"
    /\ frame' = Local("sign_message", frame["signing_preimage"])
    /\ trace' = Append(trace, "sign")
    /\ result' = [raised |-> "sign"]
    /\ pc' = OnSignFailure
    /\ UNCHANGED <<body, args, prev>>
    /\ UNCHANGED appVars

\* lines 235-257
Step8Envelope ==
    /\ pc = "step8"
    /\ frame' = Local("envelope", step8_envelope(args, frame))
    /\ result' = <<step8_envelope(args, frame), frame["timestamp"]>>
    /\ trace' = Append(trace, "envelope")
    /\ pc' = "done"
    /\ UNCHANGED <<body, args, prev>>
    /\ UNCHANGED appVars

Next ==
    \/ Call
    \/ Guard
    \/ GuardRaises
    \/ Dispatch
    \/ OriginalCompute
    \/ Prepare
    \/ Step1Metadata
    \/ Step2Initiator
    \/ Step3Header
    \/ Step4Body
    \/ Step5HeaderHash
    \/ Step5BodyHash
    \/ Step5TxHash
    \/ Step6Preimage
    \/ Step7Sign
    \/ Step7SignRaises
    \/ Step8Envelope

Spec == Init /\ [][Next]_vars

\* The encoders on their own, as the SDK calls them through the patched names.
InitEncode ==
    /\ body = <<>>
    /\ pc = "idle"
    /\ args = <<>>
    /\ frame = <<>>
    /\ trace = <<>>
    /\ result = <<>>
    /\ prev = <<>>
    /\ InitApp

\* _conv._encode_tx_body(body), lines 63-136
EncodeTxBody ==
    /\ pc = "idle"
    /\ \E b \in EncoderBodies :
          /\ body' = b
          /\ result' = encode_tx_body_outcome(b)
          /\ trace' = IF delegate_called(b)
                         THEN <<"encode_tx_body", "original_encode_tx_body">>
                         ELSE <<"encode_tx_body">>
    /\ pc' = "returned"
    /\ UNCHANGED <<args, frame, prev>>
    /\ UNCHANGED appVars

\* _conv._encode_key_page_operation(op), lines 309-345
EncodeKeyPageOperation ==
    /\ pc = "idle"
    /\ \E op \in KeyPageOperations :
          /\ args' = [op |-> op]
          /\ result' = [returned |-> patched_encode_key_page_operation(op)]
    /\ trace' = <<"encode_key_page_operation">>
    /\ pc' = "returned"
    /\ UNCHANGED <<body, frame, prev>>
    /\ UNCHANGED appVars

NextEncode == EncodeTxBody \/ EncodeKeyPageOperation

SpecEncode == InitEncode /\ [][NextEncode]_vars

\* a caller that signs the same body object more than once
InitRepeat ==
    /\ body \in RepeatBodies \cup UnsupportedBodies
    /\ pc = "idle"
    /\ args = <<>>
    /\ frame = <<>>
    /\ trace = <<>>
    /\ result = <<>>
    /\ prev = <<>>
    /\ InitApp

NextRepeat == Next \/ CallAgain

SpecRepeat == InitRepeat /\ [][NextRepeat]_vars

\* Two signing calls in flight at once, each on a body object of its own.
\* The running call is in body, pc, args, frame, trace and result; the other
\* one is suspended in thread.other, and Switch lets it run instead.

\* the bodies of two calls in flight: 64 bytes, a short one, and a kind no
\* encoder has a rule for
ThreadBodies ==
    {[type |-> "writeDataTo", recipient |-> Str(53), entry |-> Entry(1)],
     [type |-> "burnCredits", amount |-> 17],
     [type |-> "bogusKind"]}

\* the arguments of the call with the given number
ThreadArgs(id) ==
    {[keypair |-> keypair, principal |-> Str(3 + id), signer_url |-> Str(5),
      signer_version |-> 1, memo |-> NoneStr, timestamp |-> timestamp] :
        keypair \in {AlgoKeypair("ed25519", 2, "ed25519", Pub(32, 2)),
                     AlgoKeypair("eth", 10, "eth", Pub(33, 5))},
        timestamp \in {NoneInt, 7}}

\* the suspended call, as it was when it stopped running
Suspended == [body |-> body, pc |-> pc, args |-> args, frame |-> frame,
              trace |-> trace, result |-> result]

\* a call in flight has started and not ended
InFlight(p) == p \notin {"idle", "done", "raised"}

\* two calls that work on one body object
resumed_body_shared(saved, running) == running

\* each call has the body object its caller passed
resumed_body(saved, running) == saved

InitThreads ==
    /\ pc = "idle"
    /\ args = <<>>
    /\ frame = <<>>
    /\ trace = <<>>
    /\ result = <<>>
    /\ prev = <<>>
    /\ \E b1 \in ThreadBodies, b2 \in ThreadBodies :
          /\ b1 # b2
          /\ body = b1
          /\ thread = [cur |-> 1,
                       other |-> [body |-> b2, pc |-> "idle", args |-> <<>>,
                                  frame |-> <<>>, trace |-> <<>>,
                                  result |-> <<>>],
                       started |-> <<b1, b2>>,
                       interleaved |-> FALSE]
    /\ sessions = <<>>
    /\ client = "None"
    /\ response = [op |-> "none"]
    /\ lastop = <<>>
    /\ poll = [pc |-> "idle"]
    /\ conv = <<>>

\* the call that is running starts: _conv._compute_tx_hash_and_sign(...)
CallThread ==
    /\ thread # <<>>
    /\ pc = "idle"
    /\ args' \in ThreadArgs(thread.cur)
    /\ pc' = FirstStep
    /\ UNCHANGED <<body, frame, trace, result, prev, appVars>>

\* the running call is suspended between two of its steps and the other one
\* runs
Switch ==
    /\ thread # <<>>
    /\ thread.other.pc \notin {"done", "raised"}
    /\ body' = resumed_body(thread.other.body, body)
    /\ pc' = thread.other.pc
    /\ args' = thread.other.args
    /\ frame' = thread.other.frame
    /\ trace' = thread.other.trace
    /\ result' = thread.other.result
    /\ thread' = [thread EXCEPT
                     !.cur = 3 - thread.cur,
                     !.other = Suspended,
                     !.interleaved =
                         @ \/ (InFlight(pc) /\ InFlight(thread.other.pc))]
    /\ UNCHANGED <<prev, sessions, client, response, lastop, poll, conv>>

NextThreads ==
    \/ CallThread
    \/ Switch
    \/ Guard
    \/ GuardRaises
    \/ Dispatch
    \/ OriginalCompute
    \/ Prepare
    \/ Step1Metadata
    \/ Step2Initiator
    \/ Step3Header
    \/ Step4Body
    \/ Step5HeaderHash
    \/ Step5BodyHash
    \/ Step5TxHash
    \/ Step6Preimage
    \/ Step7Sign
    \/ Step7SignRaises
    \/ Step8Envelope

SpecThreads == InitThreads /\ [][NextThreads]_vars

---------------------------------------------------------------------------
(* session_store.py and routes: the session store, key generation and the  *)
(* guards of the signing routes                                            *)

\* session ids of two browser tabs
SessionIds == {"s1", "s2"}

\* dict.get(session_id) of an absent key: None
NoKeypair == [id |-> "None"]

\* str.lower() on ASCII text
Lower(s) == [i \in 1..Len(s) |-> IF s[i] \in 65..90 THEN s[i] + 32 ELSE s[i]]

\* keys.py, _ALGORITHMS: name, tag number, type name and public key length
ALGORITHMS ==
    {[name |-> <<101, 100, 50, 53, 53, 49, 57>>, num |-> 2, str |-> "ed25519",
      publen |-> 32],
     [name |-> <<114, 99, 100, 49>>, num |-> 3, str |-> "rcd1", publen |-> 32],
     [name |-> <<98, 116, 99>>, num |-> 8, str |-> "btc", publen |-> 33],
     [name |-> <<101, 116, 104>>, num |-> 10, str |-> "eth", publen |-> 33]}

VALID_ALGORITHMS == {a.name : a \in ALGORITHMS}

\* req.algorithm: "ed25519", "Ed25519", "rcd1", "RCD1", "btc", "eth", "ETH",
\* "rsa", "", "eth " and "ed"
AlgorithmNames ==
    {<<101, 100, 50, 53, 53, 49, 57>>, <<69, 100, 50, 53, 53, 49, 57>>,
     <<114, 99, 100, 49>>, <<82, 67, 68, 49>>, <<98, 116, 99>>,
     <<101, 116, 104>>, <<69, 84, 72>>, <<114, 115, 97>>, <<>>,
     <<101, 116, 104, 32>>, <<101, 100>>}

\* a lookup of the algorithm name as it was sent
algorithm_key_as_sent(algorithm) == algorithm

\* keys.py line 121
algorithm_key(algorithm) == Lower(algorithm)

\* the wrapper generate_keys builds for a row of _ALGORITHMS, lines 132-139
Wrapper(a) == AlgoKeypair(a.str, a.num, a.str, Pub(a.publen, a.num))

\* keypairs a session can hold
StoredKeypairs == {Wrapper(a) : a \in ALGORITHMS}

\* SessionStore.store, line 72
store_store(d, session_id, keypair) == DictSet(d, session_id, keypair)

\* SessionStore.get, line 75
store_get(d, session_id) == Get(d, session_id, NoKeypair)

\* a remove that empties the store
store_remove_all(d, session_id) == <<>>

\* SessionStore.remove, line 78
store_remove(d, session_id) == [x \in DOMAIN d \ {session_id} |-> d[x]]

\* SessionStore.has, line 81
store_has(d, session_id) == session_id \in DOMAIN d

\* how the try block of a signing route ends: the transaction is delivered,
\* the network rejects it, or an exception is raised before anything is
\* signed or when the signed transaction is submitted
TryOutcomes == {"delivered", "rejected", "raised_before_sign", "raised_at_submit"}

\* a signing route that does not look for the session's keypair
signing_route_unguarded(name, session_id, outcome) ==
    [op |-> name, session |-> session_id,
     success |-> outcome = "delivered",
     error |-> IF outcome = "delivered" THEN "None" ELSE outcome,
     signed |-> outcome # "raised_before_sign",
     submitted |-> outcome \in {"delivered", "rejected"}]

\* the response of a signing route: the two guards, then the try block
signing_route(name, session_id, outcome) ==
    IF client = "None"
    THEN [op |-> name, session |-> session_id, success |-> FALSE,
          error |-> "Client not initialized",
          signed |-> FALSE, submitted |-> FALSE]
    ELSE IF store_get(sessions, session_id) = NoKeypair
    THEN [op |-> name, session |-> session_id, success |-> FALSE,
          error |-> "No keypair for session",
          signed |-> FALSE, submitted |-> FALSE]
    ELSE [op |-> name, session |-> session_id,
          success |-> outcome = "delivered",
          error |-> IF outcome = "delivered" THEN "None" ELSE outcome,
          signed |-> outcome # "raised_before_sign",
          submitted |-> outcome \in {"delivered", "rejected"}]

InitProxy ==
    /\ body = <<>>
    /\ pc = "idle"
    /\ args = <<>>
    /\ frame = <<>>
    /\ trace = <<>>
    /\ result = <<>>
    /\ prev = <<>>
    /\ InitApp

\* main.py, lines 31-34: the application starts and creates the client
Lifespan ==
    /\ client = "None"
    /\ client' = "initialised"
    /\ UNCHANGED <<callVars, thread, sessions, response, lastop, poll, conv>>

\* store.store(session_id, keypair)
Store ==
    /\ \E session_id \in SessionIds, keypair \in StoredKeypairs :
          /\ sessions' = store_store(sessions, session_id, keypair)
          /\ lastop' = DictSet(lastop, session_id,
                               [op |-> "store", keypair |-> keypair])
          /\ response' = [op |-> "store", session |-> session_id]
    /\ UNCHANGED <<callVars, thread, client, poll, conv>>

\* store.get(session_id)
StoreGet ==
    /\ \E session_id \in SessionIds :
          response' = [op |-> "get", session |-> session_id,
                       value |-> store_get(sessions, session_id)]
    /\ UNCHANGED <<callVars, thread, sessions, client, lastop, poll, conv>>

\* store.remove(session_id)
StoreRemove ==
    /\ \E session_id \in SessionIds :
          /\ sessions' = store_remove(sessions, session_id)
          /\ lastop' = DictSet(lastop, session_id, [op |-> "remove"])
          /\ response' = [op |-> "remove", session |-> session_id]
    /\ UNCHANGED <<callVars, thread, client, poll, conv>>

\* store.has(session_id)
StoreHas ==
    /\ \E session_id \in SessionIds :
          response' = [op |-> "has", session |-> session_id,
                       value |-> store_has(sessions, session_id)]
    /\ UNCHANGED <<callVars, thread, sessions, client, lastop, poll, conv>>

\* POST /generate-keys, lines 117-152
GenerateKeys ==
    /\ \E session_id \in SessionIds, algorithm \in AlgorithmNames,
          store_as_signer \in BOOLEAN :
          LET algo == algorithm_key(algorithm)
          IN  IF algo \notin VALID_ALGORITHMS
              THEN /\ response' = [op |-> "generate-keys",
                                   session |-> session_id,
                                   requested |-> algorithm,
                                   store_as_signer |-> store_as_signer,
                                   status |-> 400]
                   /\ UNCHANGED <<sessions, lastop>>
              ELSE LET row == CHOOSE a \in ALGORITHMS : a.name = algo
                   IN  /\ response' = [op |-> "generate-keys",
                                       session |-> session_id,
                                       requested |-> algorithm,
                                       store_as_signer |-> store_as_signer,
                                       status |-> 200,
                                       algorithm |-> algo,
                                       public_key |-> Hex(Pub(row.publen, row.num))]
                       /\ IF store_as_signer
                          THEN /\ sessions' = store_store(sessions, session_id,
                                                          Wrapper(row))
                               /\ lastop' = DictSet(lastop, session_id,
                                                    [op |-> "store",
                                                     keypair |-> Wrapper(row)])
                          ELSE UNCHANGED <<sessions, lastop>>
    /\ UNCHANGED <<callVars, thread, client, poll, conv>>

\* generic.py, lines 85-290
SignAndSubmit ==
    /\ \E session_id \in SessionIds, outcome \in TryOutcomes :
          response' = signing_route("sign-and-submit", session_id, outcome)
    /\ UNCHANGED <<callVars, thread, sessions, client, lastop, poll, conv>>

\* tokens.py, lines 12-53
SendTokens ==
    /\ \E session_id \in SessionIds, outcome \in TryOutcomes :
          response' = signing_route("send-tokens", session_id, outcome)
    /\ UNCHANGED <<callVars, thread, sessions, client, lastop, poll, conv>>

\* tokens.py, lines 56-91
CreateTokenAccount ==
    /\ \E session_id \in SessionIds, outcome \in TryOutcomes :
          response' = signing_route("create-token-account", session_id, outcome)
    /\ UNCHANGED <<callVars, thread, sessions, client, lastop, poll, conv>>

\* data.py, lines 21-53
CreateDataAccount ==
    /\ \E session_id \in SessionIds, outcome \in TryOutcomes :
          response' = signing_route("create-data-account", session_id, outcome)
    /\ UNCHANGED <<callVars, thread, sessions, client, lastop, poll, conv>>

\* data.py, lines 56-88
WriteData ==
    /\ \E session_id \in SessionIds, outcome \in TryOutcomes :
          response' = signing_route("write-data", session_id, outcome)
    /\ UNCHANGED <<callVars, thread, sessions, client, lastop, poll, conv>>

\* data.py, lines 118-193
WriteDataTo ==
    /\ \E session_id \in SessionIds, outcome \in TryOutcomes :
          response' = signing_route("write-data-to", session_id, outcome)
    /\ UNCHANGED <<callVars, thread, sessions, client, lastop, poll, conv>>

\* credits.py, lines 13-52
AddCredits ==
    /\ \E session_id \in SessionIds, outcome \in TryOutcomes :
          response' = signing_route("add-credits", session_id, outcome)
    /\ UNCHANGED <<callVars, thread, sessions, client, lastop, poll, conv>>

\* identity.py, lines 12-66
CreateIdentity ==
    /\ \E session_id \in SessionIds, outcome \in TryOutcomes :
          response' = signing_route("create-identity", session_id, outcome)
    /\ UNCHANGED <<callVars, thread, sessions, client, lastop, poll, conv>>

NextProxy ==
    \/ Lifespan
    \/ Store
    \/ StoreGet
    \/ StoreRemove
    \/ StoreHas
    \/ GenerateKeys
    \/ SignAndSubmit
    \/ SendTokens
    \/ CreateTokenAccount
    \/ CreateDataAccount
    \/ WriteData
    \/ WriteDataTo
    \/ AddCredits
    \/ CreateIdentity

SpecProxy == InitProxy /\ [][NextProxy]_vars

---------------------------------------------------------------------------
(* routes/query.py: wait-for-tx *)

\* Largest max_attempts of a request.
MaxAttempts == 3

\* req.max_attempts: an int, 30 when absent
MaxAttemptsValues == -1..MaxAttempts

\* req.delay_ms: an int, 2000 when absent
DelayValues == {-1, 0, 2000}

\* what client.v3.query(req.tx_hash) does: it raises, or returns something
\* that is not a dict, or a dict whose status is not a dict, or a dict whose
\* status dict has the given delivered and failed entries
QueryAnswers ==
    {[kind |-> "raises"], [kind |-> "not_a_dict"], [kind |-> "status_not_a_dict"]}
    \cup {[kind |-> "status", delivered |-> d, failed |-> f] :
             d \in BOOLEAN, f \in BOOLEAN}

\* a check that takes only a delivered status as final
status_final_delivered_only(answer) ==
    answer.kind = "status" /\ answer.delivered

\* line 87: the status reports delivered or failed
status_final(answer) ==
    answer.kind = "status" /\ (answer.delivered \/ answer.failed)

\* time.sleep(req.delay_ms / 1000) raises ValueError for a negative length
sleep_raises(delay_ms) == delay_ms < 0

InitWait ==
    /\ body = <<>>
    /\ pc = "idle"
    /\ args = <<>>
    /\ frame = <<>>
    /\ trace = <<>>
    /\ result = <<>>
    /\ prev = <<>>
    /\ InitApp

\* POST /wait-for-tx, lines 75-80: the handler starts
WaitForTx ==
    /\ poll.pc \in {"idle", "returned"}
    /\ \E max_attempts \in MaxAttemptsValues, delay_ms \in DelayValues :
          IF client = "None"
          THEN /\ poll' = [pc |-> "returned", max_attempts |-> max_attempts,
                           delay_ms |-> delay_ms, attempt |-> 0,
                           answers |-> <<>>, polled |-> FALSE]
               /\ response' = [op |-> "wait-for-tx", success |-> FALSE,
                               error |-> "Client not initialized"]
          ELSE /\ poll' = [pc |-> "loop", max_attempts |-> max_attempts,
                           delay_ms |-> delay_ms, attempt |-> 0,
                           answers |-> <<>>, polled |-> TRUE]
               /\ response' = [op |-> "wait-for-tx"]
    /\ UNCHANGED <<callVars, thread, sessions, client, lastop, conv>>

\* lines 83-93 and 96-97: one round of the loop
PollOnce ==
    /\ poll.pc = "loop"
    /\ poll.attempt < poll.max_attempts
    /\ \E answer \in QueryAnswers :
          LET asked == [poll EXCEPT !.answers = Append(@, answer)]
          IN  IF answer.kind \in {"raises", "not_a_dict"}
              THEN /\ poll' = [asked EXCEPT !.pc = "returned"]
                   /\ response' = [op |-> "wait-for-tx", success |-> FALSE,
                                   error |-> answer.kind]
              ELSE IF status_final(answer)
              THEN /\ poll' = [asked EXCEPT !.pc = "returned"]
                   /\ response' = [op |-> "wait-for-tx",
                                   success |-> ~answer.failed,
                                   data |-> answer,
                                   attempts |-> poll.attempt + 1]
              ELSE IF sleep_raises(poll.delay_ms)
              THEN /\ poll' = [asked EXCEPT !.pc = "returned"]
                   /\ response' = [op |-> "wait-for-tx", success |-> FALSE,
                                   error |-> "sleep length must be non-negative"]
              ELSE /\ poll' = [asked EXCEPT !.attempt = @ + 1]
                   /\ UNCHANGED response
    /\ UNCHANGED <<callVars, thread, sessions, client, lastop, conv>>

\* lines 94-95: the loop is over and nothing was final
NotConfirmed ==
    /\ poll.pc = "loop"
    /\ ~(poll.attempt < poll.max_attempts)
    /\ poll' = [poll EXCEPT !.pc = "returned"]
    /\ response' = [op |-> "wait-for-tx", success |-> FALSE,
                    error |-> "Transaction not confirmed"]
    /\ UNCHANGED <<callVars, thread, sessions, client, lastop, conv>>

\* the application starts while no handler is running
LifespanWait ==
    /\ poll.pc \in {"idle", "returned"}
    /\ Lifespan

NextWait ==
    \/ LifespanWait
    \/ WaitForTx
    \/ PollOnce
    \/ NotConfirmed

SpecWait == InitWait /\ [][NextWait]_vars

---------------------------------------------------------------------------
(* apply_body_padding_patch and the bindings it changes.  conv.attr is the *)
(* SDK module's namespace (the function each of the four names is bound    *)
(* to), conv.original the _original_* globals of body_padding.py, and      *)
(* conv.applies counts the calls of apply_body_padding_patch.  In          *)
(* SpecPatch trace is the call stack: one frame per function that is       *)
(* running, with the position of its next call.  A function of the SDK is  *)
(* a leaf: what it calls is outside the source.                            *)

\* the four names of the SDK module that lines 350-353 rebind
PatchedNames ==
    {"_encode_tx_body", "_compute_tx_hash_and_sign",
     "_compute_write_data_body_hash", "_encode_key_page_operation"}

MaxApplies == 3

MaxDepth == 6

\* what a call is made with: the body's type, the keypair's signature type
\* and the key-page operation's type
CallInputs ==
    [body_type : {"sendTokens", "writeData", "writeDataTo", "lockAccount"},
     sig_type  : {2, 3},
     op_type   : {"add", "updateAllowed"}]

\* the calls a running function makes among the functions of this model,
\* in order.  A call by "original" reads the _original_* global of that
\* name when it is made; a call by "direct" names a function of
\* body_padding.py itself.
callees(fn, in) ==
    IF fn.impl = "patched" /\ fn.name = "_encode_tx_body"
    THEN \* lines 73-131
         IF in.body_type \in PatchedBodyKinds
         THEN <<>>
         ELSE <<[via |-> "original", impl |-> "", name |-> "_encode_tx_body"]>>
    ELSE IF fn.impl = "patched" /\ fn.name = "_compute_write_data_body_hash"
    THEN \* lines 150-153
         IF in.body_type # "writeDataTo"
         THEN <<[via |-> "original", impl |-> "",
                 name |-> "_compute_write_data_body_hash"]>>
         ELSE <<>>
    ELSE IF fn.impl = "patched" /\ fn.name = "_compute_tx_hash_and_sign"
    THEN \* lines 275-288
         <<[via |-> "direct", impl |-> "patched", name |-> "_encode_tx_body"]>>
         \o IF in.sig_type = 2
            THEN <<[via |-> "original", impl |-> "",
                    name |-> "_compute_tx_hash_and_sign"]>>
            ELSE <<[via |-> "direct", impl |-> "helper",
                    name |-> "_compute_non_ed25519"]>>
    ELSE IF fn.impl = "helper" /\ fn.name = "_compute_non_ed25519"
    THEN \* lines 217-225
         <<[via |-> "direct", impl |-> "patched", name |-> "_encode_tx_body"]>>
         \o IF in.body_type \in {"writeData", "writeDataTo"}
            THEN <<[via |-> "direct", impl |-> "patched",
                    name |-> "_compute_write_data_body_hash"]>>
            ELSE <<>>
    ELSE IF fn.impl = "patched" /\ fn.name = "_encode_key_page_operation"
    THEN \* lines 315-345
         IF in.op_type \in {"updateAllowed", "setRejectThreshold",
                            "setResponseThreshold"}
         THEN <<>>
         ELSE <<[via |-> "original", impl |-> "",
                 name |-> "_encode_key_page_operation"]>>
    ELSE <<>>

\* an apply that saves the current bindings as the originals
originals_recaptured_on_apply(c) == c.attr

\* lines 348-353 assign no _original_* global: they keep what the import saved
originals_after_apply(c) == c.original

InitPatch ==
    /\ body = <<>>
    /\ pc = "idle"
    /\ args = <<>>
    /\ frame = <<>>
    /\ trace = <<>>
    /\ result = <<>>
    /\ prev = <<>>
    /\ thread = <<>>
    /\ sessions = <<>>
    /\ client = "None"
    /\ response = [op |-> "none"]
    /\ lastop = <<>>
    /\ poll = [pc |-> "idle"]
    /\ conv = [attr     |-> [n \in PatchedNames |-> "sdk"],
               original |-> [n \in PatchedNames |-> "unbound"],
               applies  |-> 0]

\* lines 26-30 and 306: the module body runs once, at the first import, and
\* saves the function each name is bound to at that moment
ImportBodyPadding ==
    /\ \A n \in PatchedNames : conv.original[n] = "unbound"
    /\ conv' = [conv EXCEPT !.original = conv.attr]
    /\ UNCHANGED <<callVars, thread, sessions, client, response, lastop, poll>>

\* lines 348-353 (main.py line 17 calls it; nothing prevents another call)
ApplyPatch ==
    /\ \A n \in PatchedNames : conv.original[n] # "unbound"
    /\ conv.applies < MaxApplies
    /\ conv' = [attr     |-> [n \in PatchedNames |-> "patched"],
                original |-> originals_after_apply(conv),
                applies  |-> conv.applies + 1]
    /\ UNCHANGED <<callVars, thread, sessions, client, response, lastop, poll>>

\* the SDK calls one of the four names: the lookup in its namespace gives
\* the function that runs
CallEntry ==
    /\ trace = <<>>
    /\ \E name \in PatchedNames, in \in CallInputs :
          /\ args' = [name |-> name, in |-> in]
          /\ trace' = <<[fn   |-> [impl |-> conv.attr[name], name |-> name],
                         via  |-> "lookup",
                         next |-> 1]>>
    /\ UNCHANGED <<body, pc, frame, result, prev, appVars>>

\* the running function makes its next call
CallNext ==
    /\ trace # <<>>
    /\ Len(trace) < MaxDepth
    /\ LET top == trace[Len(trace)]
           cs  == callees(top.fn, args.in)
       IN  /\ top.next <= Len(cs)
           /\ LET ref == cs[top.next]
                  impl == IF ref.via = "original"
                          THEN conv.original[ref.name]
                          ELSE ref.impl
              IN  trace' = [trace EXCEPT ![Len(trace)].next = top.next + 1]
                             \o <<[fn   |-> [impl |-> impl, name |-> ref.name],
                                   via  |-> ref.via,
                                   next |-> 1]>>
    /\ UNCHANGED <<body, pc, args, frame, result, prev, appVars>>

\* the running function has made all its calls and returns
Return ==
    /\ trace # <<>>
    /\ LET top == trace[Len(trace)]
       IN  /\ top.next > Len(callees(top.fn, args.in))
           /\ trace' = SubSeq(trace, 1, Len(trace) - 1)
           /\ result' = IF Len(trace) = 1
                        THEN [returned |-> top.fn, applies |-> conv.applies]
                        ELSE result
    /\ UNCHANGED <<body, pc, args, frame, prev, appVars>>

NextPatch ==
    \/ ImportBodyPadding
    \/ ApplyPatch
    \/ CallEntry
    \/ CallNext
    \/ Return

SpecPatch == InitPatch /\ [][NextPatch]_vars

---------------------------------------------------------------------------
(* Helpers of the properties *)

\* the running call has passed the guard
PastGuard == pc \notin {"idle", "guard"} /\ "encoded" \in DOMAIN frame

Has(name) == name \in DOMAIN frame

Occurs(ev) == \E i \in 1..Len(trace) : trace[i] = ev

Count(ev) == Cardinality({i \in 1..Len(trace) : trace[i] = ev})

\* position of the last occurrence of ev in trace, 0 when there is none
LastIndex(ev) ==
    IF Occurs(ev) THEN CHOOSE i \in 1..Len(trace) :
                            trace[i] = ev /\ \A j \in (i + 1)..Len(trace) : trace[j] # ev
                  ELSE 0

FirstIndex(ev) ==
    IF Occurs(ev) THEN CHOOSE i \in 1..Len(trace) :
                            trace[i] = ev /\ \A j \in 1..(i - 1) : trace[j] # ev
                  ELSE 0

DataWrite == Get(body, "type", "") \in {"writeData", "writeDataTo"}

\* <<value, next position>> of the unsigned LEB128 number at position i of b
RECURSIVE UvarintAt(_, _)
UvarintAt(b, i) ==
    IF b[i] < 128 THEN <<b[i], i + 1>>
    ELSE LET r == UvarintAt(b, i + 1) IN <<(b[i] - 128) + 128 * r[1], r[2]>>

\* A decoder of signature metadata: the fields of b from position i on, each
\* as [num, value]; fields 1, 5 and 6 are varints, the others length-prefixed.
RECURSIVE DecodeFields(_, _)
DecodeFields(b, i) ==
    IF i > Len(b) THEN <<>>
    ELSE LET tag == UvarintAt(b, i)
         IN  IF tag[1] \in {1, 5, 6}
             THEN LET v == UvarintAt(b, tag[2])
                  IN  <<[num |-> tag[1], uint |-> v[1]]>> \o DecodeFields(b, v[2])
             ELSE LET n == UvarintAt(b, tag[2])
                  IN  <<[num |-> tag[1], bytes |-> SubSeq(b, n[2], n[2] + n[1] - 1)]>>
                      \o DecodeFields(b, n[2] + n[1])

FieldNums(fields) == [i \in 1..Len(fields) |-> fields[i].num]

\* routes/keys.py _ALGORITHMS: the type name of a signature type number
SigTypeName(num) ==
    CASE num = 2 -> "ed25519" [] num = 3 -> "rcd1" [] num = 8 -> "btc"
      [] num = 10 -> "eth" [] OTHER -> "unknown"

\* A decoder of a structure: the fields of b from position i on, each as
\* [num, value]; the fields numbered in varints are varints, the others are
\* length-prefixed.
RECURSIVE ParseFields(_, _, _)
ParseFields(b, i, varints) ==
    IF i > Len(b) THEN <<>>
    ELSE LET tag == UvarintAt(b, i)
         IN  IF tag[1] \in varints
             THEN LET v == UvarintAt(b, tag[2])
                  IN  <<[num |-> tag[1], uint |-> v[1]]>>
                      \o ParseFields(b, v[2], varints)
             ELSE LET n == UvarintAt(b, tag[2])
                  IN  <<[num |-> tag[1], bytes |-> SubSeq(b, n[2], n[2] + n[1] - 1)]>>
                      \o ParseFields(b, n[2] + n[1], varints)

\* an encoder call has returned bytes for a body of the given kind
Returned(kind) ==
    /\ pc = "returned"
    /\ Get(body, "type", "") = kind
    /\ "returned" \in DOMAIN result

\* number of epilogue bytes the body carries
EpilogueLen == Len(Get(body, "$epilogue", <<>>)) \div 2

\* the returned bytes without the epilogue
ReturnedFields == SubSeq(result.returned, 1, Len(result.returned) - EpilogueLen)

\* the claimed enum value of an operation type
OpTypeEnum(t) ==
    CASE t = "enable" -> 1 [] t = "disable" -> 2
      [] t \in {"addAuthority", "add"} -> 3
      [] t \in {"removeAuthority", "remove"} -> 4

\* every recipient of the body names a URL
RecipientsNamed ==
    \A i \in 1..Len(Get(body, "to", <<>>)) :
        Len(Get(body["to"][i], "url", <<>>)) > 0

\* every operation of the body has a type of the mapping and an authority
OperationsMapped ==
    \A i \in 1..Len(Get(body, "operations", <<>>)) :
        /\ Get(body["operations"][i], "type", "") \in
              {"enable", "disable", "addAuthority", "removeAuthority",
               "add", "remove"}
        /\ Len(Get(body["operations"][i], "authority", <<>>)) > 0

\* the key-page operation encoder has returned for an operation of the kind
ReturnedOp(kind) ==
    /\ pc = "returned"
    /\ "op" \in DOMAIN args
    /\ Get(args["op"], "type", "") = kind

\* the fields numbered n, in their order
WithNum(fields, n) == SelectSeq(fields, LAMBDA f : f.num = n)

NonDecreasing(fields) ==
    \A i \in 1..(Len(fields) - 1) : fields[i].num <= fields[i + 1].num

\* no field holds zero or nothing
NoZeroValue(fields) ==
    \A i \in 1..Len(fields) :
        IF "uint" \in DOMAIN fields[i] THEN fields[i].uint # 0
                                        ELSE Len(fields[i].bytes) > 0

\* the varint fields of a body of the kind, as this module writes it
BodyVarints(kind) ==
    IF kind \in {"lockAccount", "burnCredits"} THEN {1, 2} ELSE {1}

\* the claimed enum value of an element of an allow or deny list
TxTypeEnum(ref) ==
    IF "int" \in DOMAIN ref THEN ref.int
    ELSE CASE ref.name = "writeData" -> 5
           [] ref.name = "updateKeyPage" -> 15

\* every element of the list is a non-zero int or a name of the table
TxTypesKnown(refs) ==
    \A i \in 1..Len(refs) :
        IF "int" \in DOMAIN refs[i] THEN refs[i].int # 0
        ELSE refs[i].name \in DOMAIN TX_TYPE_NAME_MAP

\* the caller gave the encoder a value outside its field's domain
MalformedInput ==
    \/ /\ Get(body, "type", "") = "updateAccountAuth"
       /\ \E i \in 1..Len(Get(body, "operations", <<>>)) :
             /\ "type" \in DOMAIN body["operations"][i]
             /\ body["operations"][i]["type"] \notin
                   {"enable", "disable", "addAuthority", "removeAuthority",
                    "add", "remove"}
    \/ /\ Get(body, "type", "") = "burnCredits"
       /\ Get(body, "amount", 0) = NotANumber
    \/ /\ Get(body, "type", "") = "lockAccount"
       /\ Get(body, "height", 0) = NotANumber
    \/ /\ Get(body, "type", "") = "transferCredits"
       /\ \E i \in 1..Len(Get(body, "to", <<>>)) :
             Get(body["to"][i], "amount", 0) = NotANumber
    \/ LET epilogue == Get(body, "$epilogue", <<>>)
       IN  \/ Len(epilogue) % 2 = 1
           \/ \E i \in 1..Len(epilogue) :
                 epilogue[i] \notin {"0", "1", "2", "3", "4", "5", "6", "7",
                                     "8", "9", "a", "b", "c", "d", "e", "f"}
    \/ /\ "op" \in DOMAIN args
       /\ Get(args["op"], "type", "") = "updateAllowed"
       /\ \E k \in {"allow", "deny"} :
             \E i \in 1..Len(Get(args["op"], k, <<>>)) :
                /\ "name" \in DOMAIN args["op"][k][i]
                /\ args["op"][k][i].name \notin DOMAIN TX_TYPE_NAME_MAP

\* the second of two calls is running or has finished
Repeated == prev # <<>>

\* the caller left the body object alone between the two calls
SameBody == Repeated /\ prev.next_body = prev.body

\* the body of the first call is a data write and the caller replaced the
\* payload of its entry, and nothing else, before the second call
OnlyEntryDiffers ==
    /\ Repeated
    /\ Get(prev.body, "type", "") \in {"writeData", "writeDataTo"}
    /\ prev.next_body = DictSet(prev.body, "entry", prev.next_body["entry"])
    /\ prev.next_body["entry"]["type"] = prev.body["entry"]["type"]
    /\ prev.next_body["entry"]["data"] # prev.body["entry"]["data"]

---------------------------------------------------------------------------
(* Properties *)

\* C1, as claimed: once the guard has run, a body whose encoding without
\* epilogue is 64 bytes is encoded as those 64 bytes followed by 0x00, and any
\* other body is encoded as before the guard.
C1_GuardByFieldsLength ==
    PastGuard =>
        LET fields == EncodeBodyFields(body)
            after  == patched_encode_tx_body(body)
        IN  IF Len(fields) = BanLen
            THEN Len(after) = 65 /\ SubSeq(after, 1, 64) = fields /\ after[65] = 0
            ELSE after = frame["encoded"]

\* C1, amended: the guard measures the trial encoding, which includes an
\* epilogue the body already carries.  When the trial encoding is 64 bytes the
\* encoding after the guard is the encoded fields followed by the one byte
\* 0x00 (65 bytes whose first 64 are the trial encoding when the body carried
\* no epilogue bytes); for every other trial length the encoding is unchanged.
C1_GuardByTrialLength ==
    PastGuard =>
        LET fields == EncodeBodyFields(body)
            before == frame["encoded"]
            after  == patched_encode_tx_body(body)
        IN  /\ Len(before) = BanLen => after = fields \o <<0>>
            /\ (Len(before) = BanLen /\ Len(fields) = BanLen) =>
                    /\ Len(after) = 65
                    /\ SubSeq(after, 1, 64) = before
                    /\ after[65] = 0
            /\ Len(before) # BanLen => after = before

\* C1 witness: the guard has padded a body that carried no epilogue.
C1_Padded ==
    /\ pc = "dispatch"
    /\ Occurs("set_epilogue")
    /\ Len(EncodeBodyFields(body)) = BanLen
    /\ Len(patched_encode_tx_body(body)) = 65

\* C2: after the guard, the body encoding that is hashed and signed is never
\* exactly 64 bytes long, whatever epilogue the body carried.
C2_NeverBanLen ==
    PastGuard =>
        /\ Len(patched_encode_tx_body(body)) # BanLen
        /\ Has("body_binary") => Len(frame["body_binary"]) # BanLen

\* C3: in every call the trial encoding and its 64-byte length check are the
\* first two steps; the dispatch, either signing path, and every header
\* encoding, hash and signature come after them.
C3_LengthCheckFirst ==
    /\ PastGuard => Len(trace) >= 2
    /\ Len(trace) >= 1 => trace[1] = "encode_tx_body"
    /\ Len(trace) >= 2 => trace[2] = "length_check"
    /\ Count("length_check") <= 1
    /\ \A i \in 1..Len(trace) :
          trace[i] \in {"dispatch", "original_compute", "public_key_bytes",
                        "encode_metadata", "sha256_initiator",
                        "encode_tx_header", "sha256_header", "body_hash",
                        "sha256_tx_hash", "sha256_preimage", "sign",
                        "envelope"}
            => i > FirstIndex("length_check") /\ FirstIndex("length_check") = 2

\* C3 witness: a finished call with a key handle that has no algorithm tag.
C3_UntaggedKeyDone ==
    /\ pc = "done"
    /\ "_acc_sig_type" \notin DOMAIN args.keypair
    /\ Occurs("length_check")
    /\ Occurs("original_compute")

\* C4: in the parameterised flow header_hash is the digest of the encoded
\* header, body_hash of a body that is not a data write is the digest of the
\* final, post-padding encoding (not of the trial encoding when the guard
\* padded), transaction_hash is the digest of header_hash ++ body_hash, and it
\* is derived after both hashes, which follow the final encoding.
C4_HashesFromFinalBytes ==
    Has("tx_hash") =>
        /\ frame["header_hash"] =
              sha256(encode_tx_header(args.principal, frame["initiator"], args.memo))
        /\ ~DataWrite =>
              /\ frame["body_hash"] = sha256(patched_encode_tx_body(body))
              /\ patched_encode_tx_body(body) # frame["encoded"] =>
                    frame["body_hash"] # sha256(frame["encoded"])
        /\ frame["tx_hash"] = sha256cat(frame["header_hash"], frame["body_hash"])
        /\ LastIndex("encode_tx_body") > FirstIndex("length_check")
        /\ FirstIndex("sha256_header") > LastIndex("encode_tx_body")
        /\ FirstIndex("body_hash") > LastIndex("encode_tx_body")
        /\ FirstIndex("sha256_tx_hash") > FirstIndex("sha256_header")
        /\ FirstIndex("sha256_tx_hash") > FirstIndex("body_hash")

\* C4 witness: the transaction hash of a body the guard padded.
C4_PaddedTxHash ==
    /\ Has("tx_hash")
    /\ ~DataWrite
    /\ Occurs("set_epilogue")
    /\ Len(frame["encoded"]) = BanLen
    /\ Len(frame["body_binary"]) = 65

\* C5: for writeDataTo body_hash is the two-leaf Merkle root of the digest of
\* <field 1 = 6><field 2 = recipient, when non-empty> and the entry hash; for
\* writeData it is what the original SDK function returns; in both cases it
\* is not the digest of the full body encoding.
C5_DataWriteBodyHash ==
    (Has("body_hash") /\ DataWrite) =>
        /\ body["type"] = "writeDataTo" =>
              frame["body_hash"] =
                sha256cat(
                    sha256(<<1, 6>>
                           \o (IF Len(body["recipient"]) > 0
                               THEN <<2, Len(body["recipient"])>> \o body["recipient"]
                               ELSE <<>>)),
                    data_entry_hash(body["entry"]))
        /\ body["type"] = "writeData" =>
              frame["body_hash"] = original_write_data_body_hash(body)
        /\ frame["body_hash"] # sha256(frame["body_binary"])

\* C5 witness: the body hash of a writeDataTo body with a recipient.
C5_WriteDataToHashed ==
    /\ Has("body_hash")
    /\ Get(body, "type", "") = "writeDataTo"
    /\ Len(body["recipient"]) > 0

\* C6: the body hash covers the epilogue for every body kind, writeDataTo
\* included: the same body with other epilogue bytes (or none) has another
\* body_hash.  Stated for the kinds whose body hash this module computes
\* itself; the hash of a writeData body is the SDK's.
C6_EpilogueCoveredByBodyHash ==
    (Has("body_hash") /\ Get(body, "type", "") # "writeData") =>
        \A e \in Epilogues :
            FromHex(e) # FromHex(Get(body, "$epilogue", <<>>)) =>
                LET other == DictSet(body, "$epilogue", e)
                IN  step5_body_hash(other, patched_encode_tx_body(other))
                        # frame["body_hash"]

\* C7: the signature metadata holds, in this order, field 1 = algorithm tag,
\* field 2 = public key, field 4 = signer URL, field 5 = signer version iff
\* it is non-zero, field 6 = timestamp iff it is non-zero, and never field 3;
\* an absent timestamp is first replaced by the clock's value.
C7_MetadataFields ==
    Has("sig_metadata_binary") =>
        LET fields == DecodeFields(frame["sig_metadata_binary"], 1)
            ts     == frame["timestamp"]
            sv     == args.signer_version
        IN  /\ IF args.timestamp = NoneInt THEN ts \in ClockValues
                                           ELSE ts = args.timestamp
            /\ FieldNums(fields) =
                  <<1, 2, 4>> \o (IF sv # 0 THEN <<5>> ELSE <<>>)
                              \o (IF ts # 0 THEN <<6>> ELSE <<>>)
            /\ fields[1].uint = args.keypair["_acc_sig_type"]
            /\ fields[2].bytes = args.keypair["public_key"]
            /\ fields[3].bytes = args.signer_url
            /\ sv # 0 => fields[4].uint = sv
            /\ ts # 0 => fields[Len(fields)].uint = ts

\* C7 witness: metadata encoded with signer version 0 and no timestamp given.
C7_MetadataDefaultTimestamp ==
    /\ Has("sig_metadata_binary")
    /\ args.signer_version = 0
    /\ args.timestamp = NoneInt

\* C8: the initiator is the digest of the metadata bytes, the header encoder
\* and the envelope header get that same value, the signing capability is
\* handed digest(initiator ++ transaction_hash), and it is invoked once per
\* call, after the transaction hash exists.
C8_InitiatorAndPreimage ==
    /\ Count("sign") <= 1
    /\ Has("initiator") => frame["initiator"] = sha256(frame["sig_metadata_binary"])
    /\ Has("header_binary") =>
          frame["header_binary"] =
            encode_tx_header(args.principal, frame["initiator"], args.memo)
    /\ Has("signature") =>
          /\ Has("tx_hash")
          /\ frame["sign_message"] = sha256cat(frame["initiator"], frame["tx_hash"])
          /\ frame["signature"].message = frame["sign_message"]
          /\ FirstIndex("sign") > FirstIndex("sha256_tx_hash")
          /\ FirstIndex("sha256_tx_hash") > 0
    /\ (pc = "done" /\ Has("envelope")) =>
          /\ Count("sign") = 1
          /\ result[1].transaction[1].header.initiator = HexOf(frame["initiator"])

\* C8 witness: a finished call of the parameterised flow.
C8_SignedDone ==
    /\ pc = "done"
    /\ Has("envelope")
    /\ Occurs("sign")

\* C9: a key handle with tag 2 or with no tag goes to the original
\* implementation with the call's own arguments, a key handle with tag 3, 8
\* or 10 goes to the parameterised flow, whose metadata holds that tag in
\* field 1 and is otherwise the same for every tag; one path runs per call.
C9_Dispatch ==
    (PastGuard /\ pc # "dispatch") =>
        LET k      == args.keypair
            native == ("_acc_sig_type" \notin DOMAIN k) \/ k["_acc_sig_type"] = 2
        IN  /\ native =>
                /\ pc \in {"original", "done"}
                /\ ~Occurs("public_key_bytes") /\ ~Occurs("sign")
                /\ pc = "done" =>
                      /\ Occurs("original_compute")
                      /\ result.original_compute = args
                      /\ result.body = BodyRef
            /\ ~native =>
                /\ k["_acc_sig_type"] \in {3, 8, 10}
                /\ pc # "original"
                /\ ~Occurs("original_compute")
                /\ pc = "done" => Occurs("sign")
                /\ Has("sig_metadata_binary") =>
                      LET meta == frame["sig_metadata_binary"]
                      IN  /\ SubSeq(meta, 1, 2) = <<1, k["_acc_sig_type"]>>
                          /\ \A t \in {3, 8, 10} :
                                SubSeq(meta, 3, Len(meta)) =
                                  SubSeq(sig_metadata_binary(
                                            DictSet(k, "_acc_sig_type", t),
                                            frame["pub_key"], args.signer_url,
                                            args.signer_version,
                                            frame["timestamp"]),
                                         3, Len(meta))

\* C9 witness: metadata encoded for a key handle with tag 10.
C9_EthMetadata ==
    /\ Has("sig_metadata_binary")
    /\ Get(args.keypair, "_acc_sig_type", 0) = 10
    /\ pc = "done"

\* C10: the returned envelope holds one transaction (header with principal
\* and initiator, memo only when non-empty, and the body) and one signature
\* whose public key, signer URL, signer version and timestamp are the values
\* encoded in the hashed metadata, whose type name is that of the tag in
\* metadata field 1 and whose signature is the capability's result for the
\* preimage; the timestamp returned with it is the signature's.
C10_Envelope ==
    (pc = "done" /\ Has("envelope")) =>
        LET envelope == result[1]
            tx       == envelope.transaction[1]
            sig      == envelope.signatures[1]
            fields   == DecodeFields(frame["sig_metadata_binary"], 1)
        IN  /\ DOMAIN envelope = {"transaction", "signatures"}
            /\ Len(envelope.transaction) = 1
            /\ Len(envelope.signatures) = 1
            /\ tx.header.principal = args.principal
            /\ tx.header.initiator = HexOf(sha256(frame["sig_metadata_binary"]))
            /\ IF args.memo # NoneStr /\ Len(args.memo) > 0
               THEN DOMAIN tx.header = {"principal", "initiator", "memo"}
                    /\ tx.header.memo = args.memo
               ELSE DOMAIN tx.header = {"principal", "initiator"}
            /\ tx.body = BodyRef
            /\ sig.type = SigTypeName(fields[1].uint)
            /\ sig.publicKey = Hex(fields[2].bytes)
            /\ sig.signer = fields[3].bytes
            /\ IF sig.signerVersion # 0
               THEN \E i \in 1..Len(fields) :
                        fields[i].num = 5 /\ fields[i].uint = sig.signerVersion
               ELSE \A i \in 1..Len(fields) : fields[i].num # 5
            /\ IF sig.timestamp # 0
               THEN \E i \in 1..Len(fields) :
                        fields[i].num = 6 /\ fields[i].uint = sig.timestamp
               ELSE \A i \in 1..Len(fields) : fields[i].num # 6
            /\ \E nonce \in {0, 1} :
                  sig.signature =
                    HexOf(Sign(args.keypair, frame["signing_preimage"], nonce))
            /\ result[2] = sig.timestamp

\* C10 witness: an envelope returned for a call with a memo and no timestamp.
C10_EnvelopeWithMemo ==
    /\ pc = "done"
    /\ Has("envelope")
    /\ args.memo = <<109>>
    /\ args.timestamp = NoneInt

\* C11: the transaction hash is deterministic.  Of two calls on the same body
\* object, the second one computes the transaction hash of the first whenever
\* it encodes the same header, and the initiator and the transaction hash of
\* the first whenever it is given the same key, arguments and explicit
\* timestamp; this also holds when the first call padded the body.
C11_Deterministic ==
    SameBody =>
        /\ (Has("tx_hash") /\ frame["header_binary"] = prev.header_binary) =>
              frame["tx_hash"] = prev.tx_hash
        /\ (args = prev.args /\ args.timestamp # NoneInt) =>
              /\ Has("initiator") => frame["initiator"] = prev.initiator
              /\ Has("tx_hash") => frame["tx_hash"] = prev.tx_hash

\* C11 witness: the second call, with the arguments of the first and an
\* explicit timestamp, has its transaction hash and the first padded the body.
C11_RepeatedAfterPadding ==
    /\ SameBody
    /\ prev.padded
    /\ args = prev.args
    /\ args.timestamp # NoneInt
    /\ Has("tx_hash")

\* C12: for data-write bodies, two calls that differ only in the entry payload
\* have different body_hash and the same header_hash, and two calls that
\* differ only in the header (principal, memo or initiator) have the same
\* body_hash.
C12_EntryAndHeaderIndependent ==
    /\ (OnlyEntryDiffers /\ args = prev.args /\ args.timestamp # NoneInt) =>
          /\ Has("header_hash") => frame["header_hash"] = prev.header_hash
          /\ Has("body_hash") => frame["body_hash"] # prev.body_hash
    /\ (SameBody /\ DataWrite /\ Has("body_hash")
          /\ frame["header_binary"] # prev.header_binary) =>
          frame["body_hash"] = prev.body_hash

\* C12 witness: the second call on a writeDataTo body with another payload,
\* after the body hash.
C12_OtherEntryHashed ==
    /\ OnlyEntryDiffers
    /\ args = prev.args
    /\ args.timestamp # NoneInt
    /\ prev.body["type"] = "writeDataTo"
    /\ Has("body_hash")

\* C13: a burnCredits body encodes as field 1 = varint 17 followed by field
\* 2 = varint amount when the amount is non-zero, and as field 1 = varint 17
\* alone when it is zero or absent; amount 17 gives <field1:17><field2:17>.
C13_BurnCredits ==
    Returned("burnCredits") =>
        LET amount == Get(body, "amount", 0)
        IN  /\ ParseFields(ReturnedFields, 1, {1, 2}) =
                  IF amount # 0
                  THEN <<[num |-> 1, uint |-> 17], [num |-> 2, uint |-> amount]>>
                  ELSE <<[num |-> 1, uint |-> 17]>>
            /\ amount = 0 => ReturnedFields = <<1, 17>>
            /\ amount = 17 => ReturnedFields = <<1, 17, 2, 17>>

\* C13 witness: a burnCredits body with amount 17 has been encoded.
C13_BurnSeventeen ==
    /\ Returned("burnCredits")
    /\ Get(body, "amount", 0) = 17
    /\ EpilogueLen = 0

C16_RepeatedInOrder ==
    /\ Returned("updateAccountAuth") =>
          LET ops     == Get(body, "operations", <<>>)
              entries == WithNum(ParseFields(ReturnedFields, 1, {1}), 2)
          IN  /\ Len(entries) = Len(ops)
              /\ \A i \in 1..Len(ops) :
                    entries[i].bytes = encode_account_auth_operation(ops[i])
    /\ Returned("transferCredits") =>
          LET to      == Get(body, "to", <<>>)
              entries == WithNum(ParseFields(ReturnedFields, 1, {1}), 2)
          IN  /\ Len(entries) = Len(to)
              /\ \A i \in 1..Len(to) :
                    entries[i].bytes = encode_credit_recipient(to[i])
    /\ ReturnedOp("updateAllowed") =>
          LET fields == ParseFields(result.returned, 1, {1, 2, 3})
          IN  \A k \in {2, 3} :
                LET refs    == Get(args["op"], IF k = 2 THEN "allow" ELSE "deny", <<>>)
                    entries == WithNum(fields, k)
                IN  /\ Len(entries) = Len(refs)
                    /\ \A i \in 1..Len(refs) :
                          entries[i].uint = tx_type_value(refs[i])

\* C17: in every structure the patched encoders produce the field numbers
\* are in non-decreasing order and no field with a zero or empty value is
\* emitted, a threshold of 0 included.
C17_AscendingNoZero ==
    /\ \A kind \in {"writeDataTo", "updateAccountAuth", "lockAccount",
                     "transferCredits", "burnCredits"} :
          Returned(kind) =>
              LET fields == ParseFields(ReturnedFields, 1, BodyVarints(kind))
              IN  /\ NonDecreasing(fields)
                  /\ NoZeroValue(fields)
                  /\ kind \in {"updateAccountAuth", "transferCredits"} =>
                        \A i \in 2..Len(fields) :
                            LET nested ==
                                  ParseFields(fields[i].bytes, 1,
                                              IF kind = "updateAccountAuth"
                                              THEN {1} ELSE {2})
                            IN  NonDecreasing(nested) /\ NoZeroValue(nested)
    /\ \A kind \in {"updateAllowed", "setRejectThreshold", "setResponseThreshold"} :
          ReturnedOp(kind) =>
              LET fields == ParseFields(result.returned, 1, {1, 2, 3})
              IN  NonDecreasing(fields) /\ NoZeroValue(fields)

C19_MalformedRejected ==
    (pc = "returned" /\ MalformedInput) =>
        /\ "raised" \in DOMAIN result
        /\ "returned" \notin DOMAIN result

\* C20: when the signing capability fails, or the body kind has no encoding
\* rule and the delegate encoder fails, the failure reaches the caller as it
\* was raised: the call ends there, nothing is returned, the failed step is
\* not tried again and the envelope is not assembled.
C20_FailurePropagates ==
    /\ pc = "raised" =>
          /\ DOMAIN result = {"raised"}
          /\ result.raised = trace[Len(trace)]
          /\ result.raised \in {"encode_tx_body", "sign"}
          /\ ~Occurs("envelope") /\ ~Has("envelope")
          /\ Count("sign") <= 1
          /\ Count("encode_tx_body") <= 2
    /\ (Occurs("sign") /\ ~Has("signature")) =>
          pc = "raised" /\ result = [raised |-> "sign"]
    /\ (pc \notin {"idle", "guard"} /\ Get(body, "type", "") = "bogusKind") =>
          /\ pc = "raised"
          /\ result = [raised |-> "encode_tx_body"]
          /\ trace = <<"encode_tx_body">>
    /\ Occurs("envelope") => Has("signature")

\* C20 witness: a call ended by a failing signing capability.
C20_SignFailed ==
    /\ pc = "raised"
    /\ Occurs("sign")
    /\ Has("tx_hash")

\* the epilogue bytes of the body, none when it is absent or empty
EpilogueBytes ==
    IF Len(Get(body, "$epilogue", <<>>)) > 0 THEN FromHex(body["$epilogue"])
                                             ELSE <<>>

\* the fields of a body of one of the five kinds, by the kind's own rule
OwnFields ==
    LET kind == Get(body, "type", "")
    IN  CASE kind = "writeDataTo" -> encode_write_data_to(body)
          [] kind = "updateAccountAuth" -> encode_update_account_auth(body)
          [] kind = "lockAccount" -> encode_lock_account(body)
          [] kind = "transferCredits" -> encode_transfer_credits(body)
          [] kind = "burnCredits" -> encode_burn_credits(body)

\* C21: for a body whose kind is none of writeDataTo, updateAccountAuth,
\* lockAccount, transferCredits, burnCredits the patched body encoder calls
\* the delegate encoder and returns its bytes followed by the epilogue bytes
\* (nothing when the epilogue is absent or empty), and fails when the
\* delegate fails; for the five kinds the delegate is not called and the
\* epilogue bytes follow the encoded fields as they are.
C21_DelegateThenEpilogue ==
    (pc = "returned" /\ Len(trace) > 0 /\ trace[1] = "encode_tx_body") =>
        IF Get(body, "type", "") \notin
              {"writeDataTo", "updateAccountAuth", "lockAccount",
               "transferCredits", "burnCredits"}
        THEN /\ Count("original_encode_tx_body") = 1
             /\ IF original_encode_tx_body_raises(body)
                THEN DOMAIN result = {"raised"}
                ELSE /\ DOMAIN result = {"returned"}
                     /\ result.returned =
                           original_encode_tx_body(body) \o EpilogueBytes
        ELSE /\ ~Occurs("original_encode_tx_body")
             /\ "returned" \in DOMAIN result =>
                   result.returned = OwnFields \o EpilogueBytes

\* C21 witness: the encoder returned the delegate's bytes of a createDataAccount
\* body followed by the one epilogue byte ff.
C21_DelegatedWithEpilogue ==
    /\ Returned("createDataAccount")
    /\ Get(body, "$epilogue", <<>>) = <<"f", "f">>
    /\ Occurs("original_encode_tx_body")
    /\ result.returned[Len(result.returned)] = 255
    /\ Len(result.returned) = Len(original_encode_tx_body(body)) + 1

\* What one signing call gives when nothing else runs: the body it leaves
\* and what it returns, for arguments a, body b, clock value now, signing
\* randomness nonce and a signing capability that works (signs) or fails.
Alone(a, b, now, nonce, signs) ==
    IF encode_tx_body_raises(b)
    THEN [body |-> b, result |-> [raised |-> "encode_tx_body"]]
    ELSE LET padded == IF Len(patched_encode_tx_body(b)) = BanLen
                       THEN DictSet(b, "$epilogue", <<"0", "0">>) ELSE b
         IN  IF ("_acc_sig_type" \notin DOMAIN a.keypair)
                   \/ a.keypair["_acc_sig_type"] = 2
             THEN [body |-> padded, result |-> original_compute(a, padded)]
             ELSE IF ~signs
             THEN [body |-> padded, result |-> [raised |-> "sign"]]
             ELSE LET ts == IF a.timestamp = NoneInt THEN now ELSE a.timestamp
                      pub == a.keypair["public_key"]
                      initiator ==
                          sha256(sig_metadata_binary(a.keypair, pub,
                                     a.signer_url, a.signer_version, ts))
                      header_hash ==
                          sha256(encode_tx_header(a.principal, initiator, a.memo))
                      body_binary == patched_encode_tx_body(padded)
                      tx_hash ==
                          sha256cat(header_hash,
                                    step5_body_hash(padded, body_binary))
                      signature ==
                          Sign(a.keypair, sha256cat(initiator, tx_hash), nonce)
                  IN  [body |-> padded,
                       result |->
                          <<[transaction |->
                                <<[header |->
                                      IF MemoGiven(a.memo)
                                      THEN [principal |-> a.principal,
                                            initiator |-> HexOf(initiator),
                                            memo |-> a.memo]
                                      ELSE [principal |-> a.principal,
                                            initiator |-> HexOf(initiator)],
                                   body |-> BodyRef]>>,
                             signatures |->
                                <<[type |-> a.keypair["_acc_sig_str"],
                                   publicKey |-> Hex(pub),
                                   signature |-> HexOf(signature),
                                   signer |-> a.signer_url,
                                   signerVersion |-> a.signer_version,
                                   timestamp |-> ts]>>],
                            ts>>]

\* the call with body b0 that ended as c ended as it does alone
EndedAsAlone(c, b0) ==
    \E now \in ClockValues, nonce \in SignNonces(c.args.keypair),
       signs \in BOOLEAN :
        /\ c.result = Alone(c.args, b0, now, nonce, signs).result
        /\ c.body = Alone(c.args, b0, now, nonce, signs).body

\* C22: two signing calls on distinct bodies need no coordination: however
\* their steps interleave, each call that has ended returned what it returns
\* when it runs alone, one call after the other, and left its body as it
\* leaves it then.
C22_InterleavedAsSequential ==
    thread # <<>> =>
        /\ pc \in {"done", "raised"} =>
              EndedAsAlone(Suspended, thread.started[thread.cur])
        /\ thread.other.pc \in {"done", "raised"} =>
              EndedAsAlone(thread.other, thread.started[3 - thread.cur])

\* C22 witness: both calls have returned an envelope of the parameterised
\* flow, their steps were interleaved, and one of them had its body padded.
C22_BothDoneInterleaved ==
    /\ thread # <<>>
    /\ thread.interleaved
    /\ pc = "done" /\ thread.other.pc = "done"
    /\ Has("envelope") /\ "envelope" \in DOMAIN thread.other.frame
    /\ Occurs("set_epilogue")
    /\ body # thread.started[thread.cur]

\* C23: a signing call is purely functional in its inputs: no step of a call
\* adds, removes or changes a field of the caller's body, whether the call
\* succeeds or fails, and the envelope it returns holds a body of its own, so
\* that a later change of the caller's body does not reach the envelope.
C23_PurelyFunctional ==
    [][/\ body' = body
       /\ ("envelope" \in DOMAIN frame') =>
             frame'["envelope"].transaction[1].body # BodyRef]_vars

\* the tag number and the type name of the four algorithms, by lower-case name
TagOf(name) ==
    CASE name = <<101, 100, 50, 53, 53, 49, 57>> -> [num |-> 2, str |-> "ed25519"]
      [] name = <<114, 99, 100, 49>> -> [num |-> 3, str |-> "rcd1"]
      [] name = <<98, 116, 99>> -> [num |-> 8, str |-> "btc"]
      [] name = <<101, 116, 104>> -> [num |-> 10, str |-> "eth"]

\* C24: the algorithms are the closed enumeration ed25519=2, rcd1=3, btc=8,
\* eth=10: generate-keys accepts a request exactly when its algorithm is one
\* of these four names in any letter case, a keypair it stores carries the tag
\* number and the type name of the requested algorithm, and a request naming
\* anything else is answered with an error (status 400) and leaves the session
\* store as it was.
C24_AlgorithmsClosed ==
    [][response'.op = "generate-keys" =>
        LET r == response'
            name == Lower(r.requested)
        IN  IF name \in {<<101, 100, 50, 53, 53, 49, 57>>, <<114, 99, 100, 49>>,
                         <<98, 116, 99>>, <<101, 116, 104>>}
            THEN /\ r.status = 200
                 /\ r.algorithm = name
                 /\ r.store_as_signer =>
                       /\ r.session \in DOMAIN sessions'
                       /\ sessions'[r.session]["_acc_sig_type"] = TagOf(name).num
                       /\ sessions'[r.session]["_acc_sig_str"] = TagOf(name).str
            ELSE /\ r.status = 400
                 /\ sessions' = sessions]_vars

\* C24 witness: a request for "ETH" was accepted and the session holds a
\* keypair tagged 10, eth.
C24_UpperCaseAccepted ==
    /\ response.op = "generate-keys"
    /\ response.requested = <<69, 84, 72>>
    /\ response.status = 200
    /\ response.store_as_signer
    /\ response.session \in DOMAIN sessions
    /\ sessions[response.session]["_acc_sig_type"] = 10
    /\ sessions[response.session]["_acc_sig_str"] = "eth"

\* the keypair of the latest store on session s when no remove came after
\* it, None otherwise
LatestStored(ops, s) ==
    IF s \in DOMAIN ops /\ ops[s].op = "store" THEN ops[s].keypair
                                                ELSE NoKeypair

\* C25: after any sequence of store, remove, get and has operations, get(s)
\* returns the keypair of the most recent store(s, k) that no later remove(s)
\* followed and None otherwise, has(s) holds exactly when get(s) is not None,
\* get and has change nothing, remove of an absent session is a no-op, and
\* store or remove on s leaves the entry of every other session as it was.
C25_SessionStore ==
    [][LET r == response'
       IN  /\ \A s \in SessionIds :
                 /\ (s \in DOMAIN sessions') = (LatestStored(lastop', s) # NoKeypair)
                 /\ s \in DOMAIN sessions' => sessions'[s] = LatestStored(lastop', s)
           /\ r.op = "get" =>
                 /\ r.value = LatestStored(lastop', r.session)
                 /\ sessions' = sessions
           /\ r.op = "has" =>
                 /\ r.value = (LatestStored(lastop', r.session) # NoKeypair)
                 /\ sessions' = sessions
           /\ (r.op = "remove" /\ r.session \notin DOMAIN sessions) =>
                 sessions' = sessions
           /\ r.op \in {"store", "remove"} =>
                 \A t \in SessionIds \ {r.session} :
                     /\ (t \in DOMAIN sessions') = (t \in DOMAIN sessions)
                     /\ t \in DOMAIN sessions => sessions'[t] = sessions[t]]_vars

\* C25 witness: session s1 was removed last, session s2 holds the eth keypair
\* and get(s2) returned it.
C25_GetAfterRemoveOfOther ==
    /\ response.op = "get"
    /\ response.session = "s2"
    /\ response.value # NoKeypair
    /\ response.value["_acc_sig_type"] = 10
    /\ "s1" \in DOMAIN lastop /\ lastop["s1"].op = "remove"
    /\ "s1" \notin DOMAIN sessions

\* C26: no signing route signs or submits without a session keypair: in each
\* of the eight signing routes, when the client is not initialised or the
\* store holds no keypair for the request's session, the response has
\* success false and the error of the guard that stopped it, nothing was
\* signed and nothing was submitted; generate-keys with store_as_signer false
\* leaves the store as it was.
C26_NoKeypairNoSigning ==
    [][LET r == response'
       IN  /\ (/\ r.op \in {"sign-and-submit", "send-tokens",
                             "create-token-account", "create-data-account",
                             "write-data", "write-data-to", "add-credits",
                             "create-identity"}
               /\ (client = "None" \/ r.session \notin DOMAIN sessions)) =>
                 /\ r.success = FALSE
                 /\ r.error = IF client = "None" THEN "Client not initialized"
                                                ELSE "No keypair for session"
                 /\ ~r.signed
                 /\ ~r.submitted
                 /\ sessions' = sessions
           /\ (r.op = "generate-keys" /\ ~r.store_as_signer) =>
                 sessions' = sessions]_vars

\* C26 witness: write-data-to on a started application, for a session without
\* a keypair while the other session has one, was refused.
C26_RefusedWithoutKeypair ==
    /\ response.op = "write-data-to"
    /\ client = "initialised"
    /\ response.session = "s1"
    /\ "s1" \notin DOMAIN sessions
    /\ "s2" \in DOMAIN sessions
    /\ response.error = "No keypair for session"
    /\ ~response.signed

\* C27: wait-for-tx ends after at most max_attempts queries: it returns at
\* the first query whose status reports delivered or failed, with attempts the
\* number of queries made and success true exactly when the status is not
\* failed; when no query within max_attempts (0 included) reports delivered
\* or failed it returns success false with the not-confirmed error; a query
\* that raises ends the polling with success false.
C27_WaitForTx ==
    (poll.pc = "returned" /\ poll.polled) =>
        LET n == Len(poll.answers)
            Final(a) == a.kind = "status" /\ (a.delivered \/ a.failed)
        IN  /\ n <= (IF poll.max_attempts > 0 THEN poll.max_attempts ELSE 0)
            /\ \A i \in 1..(n - 1) :
                  ~Final(poll.answers[i]) /\ poll.answers[i].kind # "raises"
            /\ (n > 0 /\ Final(poll.answers[n])) =>
                  /\ "attempts" \in DOMAIN response
                  /\ response.attempts = n
                  /\ response.success = ~poll.answers[n].failed
            /\ (n > 0 /\ poll.answers[n].kind = "raises") =>
                  response.success = FALSE
            /\ (\A i \in 1..n : ~Final(poll.answers[i])
                                 /\ poll.answers[i].kind # "raises") =>
                  /\ response.success = FALSE
                  /\ response.error = "Transaction not confirmed"

\* C27 as it holds: with a started client, wait-for-tx makes at most
\* max_attempts queries; it returns at the first query whose status reports
\* delivered or failed, with attempts the number of queries made and success
\* true exactly when the status is not failed; an exception raised while
\* polling (a query that raises, a result that is not a dict, a negative
\* delay_ms refused by the sleep after the first query that was not final)
\* ends the polling there with success false and the exception as error; when
\* nothing was final and nothing raised, all max_attempts queries (none for 0
\* or less) were made and it returns success false with the not-confirmed
\* error.  With no client it makes no query and returns success false.
C27_WaitForTxPolling ==
    LET n == Len(poll.answers)
        most == IF poll.max_attempts > 0 THEN poll.max_attempts ELSE 0
        Final(a) == a.kind = "status" /\ (a.delivered \/ a.failed)
        Raises(a) == a.kind \in {"raises", "not_a_dict"}
    IN  /\ poll.pc = "loop" =>
              /\ n = poll.attempt /\ n <= most
              /\ \A i \in 1..n : ~Final(poll.answers[i]) /\ ~Raises(poll.answers[i])
        /\ (poll.pc = "returned" /\ ~poll.polled) =>
              /\ n = 0
              /\ response.success = FALSE
              /\ response.error = "Client not initialized"
        /\ (poll.pc = "returned" /\ poll.polled) =>
              /\ n <= most
              /\ \A i \in 1..(n - 1) :
                    ~Final(poll.answers[i]) /\ ~Raises(poll.answers[i])
              /\ IF n > 0 /\ Final(poll.answers[n])
                 THEN /\ "attempts" \in DOMAIN response
                      /\ response.attempts = n
                      /\ response.success = ~poll.answers[n].failed
                 ELSE IF n > 0 /\ Raises(poll.answers[n])
                 THEN /\ response.success = FALSE
                      /\ response.error = poll.answers[n].kind
                 ELSE IF n > 0 /\ poll.delay_ms < 0
                 THEN /\ n = 1
                      /\ response.success = FALSE
                      /\ response.error = "sleep length must be non-negative"
                 ELSE /\ n = most
                      /\ response.success = FALSE
                      /\ response.error = "Transaction not confirmed"

\* C27 witness: the third of three allowed queries reported delivered and
\* failed, and the handler returned attempts 3 and success false.
C27_FailedAtThirdQuery ==
    /\ poll.pc = "returned"
    /\ poll.polled
    /\ poll.max_attempts = 3
    /\ Len(poll.answers) = 3
    /\ poll.answers[3] = [kind |-> "status", delivered |-> TRUE, failed |-> TRUE]
    /\ response.attempts = 3
    /\ response.success = FALSE

\* C28: the padding guard is idempotent across calls on one body: when a
\* first signing call attached the epilogue 00 and the caller signs the same
\* body again, the later call leaves the body as the first call left it, its
\* trial encoding and its final encoding are the final encoding of the first
\* call, and no byte is added.
C28_GuardIdempotent ==
    (SameBody /\ prev.padded) =>
        /\ body = prev.body
        /\ Get(body, "$epilogue", <<>>) = <<"0", "0">>
        /\ Len(patched_encode_tx_body(body)) = Len(prev.body_binary)
        /\ Has("encoded") => frame["encoded"] = prev.body_binary
        /\ Has("body_binary") => frame["body_binary"] = prev.body_binary

\* C28 witness: the second call on a body the first call padded to 65 bytes
\* has returned its envelope.
C28_SecondCallAfterPadding ==
    /\ SameBody
    /\ prev.padded
    /\ pc = "done"
    /\ Has("envelope")
    /\ Len(frame["body_binary"]) = BanLen + 1
    /\ frame["body_binary"][BanLen + 1] = 0

\* the body without its epilogue
Unpadded(b) == [k \in DOMAIN b \ {"$epilogue"} |-> b[k]]

\* C29: the envelope agrees with what was hashed: in every envelope of the
\* parameterised flow the body is the caller's body, it carries the epilogue
\* 00 exactly when the encoding that was hashed and signed is the encoded
\* fields followed by the padding byte, re-encoding it gives the body bytes
\* of step 4, and the signed transaction hash was computed from those bytes:
\* it is the digest over them, or for a writeDataTo body a hash that the
\* padding byte is part of.
C29_EnvelopeAgreesWithHashed ==
    (pc = "done" /\ Has("envelope")) =>
        LET reencoded == patched_encode_tx_body(body)
        IN  /\ frame["envelope"].transaction[1].body = BodyRef
            /\ reencoded = frame["body_binary"]
            /\ (Get(body, "$epilogue", <<>>) = <<"0", "0">>) <=>
                  (frame["body_binary"] = EncodeBodyFields(body) \o <<0>>)
            /\ ~DataWrite =>
                  frame["tx_hash"] =
                      sha256cat(frame["header_hash"], sha256(reencoded))
            /\ (Get(body, "type", "") = "writeDataTo"
                   /\ Get(body, "$epilogue", <<>>) = <<"0", "0">>) =>
                  frame["body_hash"] #
                      step5_body_hash(Unpadded(body),
                                      patched_encode_tx_body(Unpadded(body)))

\* C30: applying the patch is idempotent and never self-referential.  After
\* one or more calls of apply_body_padding_patch the four names are bound to
\* the patched functions, every saved original is still the SDK's function,
\* every call made through a saved original runs an SDK function, and no
\* function is on the call stack twice.
C30_PatchIdempotent ==
    /\ conv.applies >= 1 =>
          /\ \A n \in PatchedNames : conv.attr[n] = "patched"
          /\ \A n \in PatchedNames : conv.original[n] = "sdk"
    /\ \A i \in 1..Len(trace) :
          trace[i].via = "original" => trace[i].fn.impl = "sdk"
    /\ \A i, j \in 1..Len(trace) : i < j => trace[i].fn # trace[j].fn

\* after the second apply a patched entry point, looked up by the SDK, has
\* reached the SDK's write-data body hash through the saved original
C30_FallbackAfterSecondApply ==
    /\ conv.applies >= 2
    /\ Len(trace) = 4
    /\ trace[1].via = "lookup"
    /\ trace[1].fn = [impl |-> "patched", name |-> "_compute_tx_hash_and_sign"]
    /\ trace[4].via = "original"
    /\ trace[4].fn = [impl |-> "sdk", name |-> "_compute_write_data_body_hash"]

===========================================================================
